---- MODULE Spec2Model ----
(***************************************************************************)
(* Verification model of the pose-processing core of Pose_3DEditor:        *)
(*   server/processing/onnx_vitpose.py  (box -> center/scale, affine       *)
(*                                       transform, heatmap decode)        *)
(*   server/processing/smooth.py        (gap fill, one-euro, savgol)       *)
(*   server/main.py, processing/exporter.py (unit-space normalisation)     *)
(*   server/processing/mappings.py      (joint index tables)               *)
(*   server/main.py                     (the /process handler)             *)
(*   server/processing/decoder.py       (frame subsampling)                *)
(*                                                                         *)
(* Numbers.  Geometry is computed over exact rationals <<num, den>>.       *)
(* The temporal smoother works on float32 samples; they are modelled as    *)
(* fixed-point integers with Scale units per 1.0, and a sample is a record *)
(* [k |-> "fin" | "nan" | "inf", v |-> units] so that NaN/inf are values.  *)
(***************************************************************************)
EXTENDS Integers, Sequences, FiniteSets, TLC

VARIABLES call, args, ret

\* Routines followed statement by statement: pc is the statement reached and
\* mem holds the module globals and locals, one record field per source name.
VARIABLES pc, mem

stepvars == <<pc, mem>>

vars == <<call, args, ret, pc, mem>>

----------------------------------------------------------------------------
(* Exact rational arithmetic                                               *)

Abs(n) == IF n < 0 THEN -n ELSE n

Sign(n) == IF n > 0 THEN 1 ELSE IF n < 0 THEN -1 ELSE 0

\* a local variable: v is evaluated once and F applied to its value
Bind(v, F(_)) == CHOOSE r \in {F(x) : x \in {v}} : TRUE

RECURSIVE GCD(_, _)
GCD(a, b) == IF b = 0 THEN a ELSE GCD(b, a % b)

Rat(n, d) ==
    LET g == GCD(Abs(n), Abs(d))
        s == IF d < 0 THEN -1 ELSE 1
    IN  IF n = 0 THEN <<0, 1>> ELSE <<(s * n) \div g, (s * d) \div g>>

RInt(n) == <<n, 1>>

RAdd(a, b) ==
    LET g == GCD(a[2], b[2])
    IN  Rat(a[1] * (b[2] \div g) + b[1] * (a[2] \div g), (a[2] \div g) * b[2])

RNeg(a) == <<-a[1], a[2]>>

RSub(a, b) == RAdd(a, RNeg(b))

RMul(a, b) ==
    LET p == Rat(a[1], b[2])
        q == Rat(b[1], a[2])
    IN  Rat(p[1] * q[1], p[2] * q[2])

RDiv(a, b) == RMul(a, Rat(b[2], b[1]))

RLt(a, b) == RSub(a, b)[1] < 0

RMax(a, b) == IF RLt(a, b) THEN b ELSE a

\* floor of a rational (den > 0)
RFloor(a) == a[1] \div a[2]

\* int(): truncation toward zero
RTrunc(a) == IF a[1] >= 0 THEN a[1] \div a[2] ELSE -((-a[1]) \div a[2])

VAdd(p, q) == <<RAdd(p[1], q[1]), RAdd(p[2], q[2])>>

VSub(p, q) == <<RSub(p[1], q[1]), RSub(p[2], q[2])>>

----------------------------------------------------------------------------
(* onnx_vitpose.py: constants                                              *)

POSE_INPUT_W == 192

POSE_INPUT_H == 256

POSE_INPUT_SIZE == <<RInt(POSE_INPUT_W), RInt(POSE_INPUT_H)>>

PIXEL_STD == 200

SCALE_FACTOR == Rat(125, 100)

\* the degenerate-box epsilon 1e-6
BoxEps == Rat(1, 1000000)

\* the scale floor 1e-3
ScaleFloor == Rat(1, 1000)

Sentinel == [center |-> <<RInt(0), RInt(0)>>, scale |-> <<RInt(1), RInt(1)>>]

----------------------------------------------------------------------------
(* _box_to_center_scale(box), box = <<x, y, w, h>> of rationals            *)

\* _box_to_center_scale returning the sentinel only when both w and h are
\* below the epsilon ("and" for "or")
BoxToCenterScaleBothSmall(box) ==
    LET w == box[3]
        h == box[4]
        ar == Rat(POSE_INPUT_W, POSE_INPUT_H)
        w2 == IF RLt(w, RMul(ar, h)) THEN RMul(h, ar) ELSE w
        h2 == IF RLt(RMul(ar, h), w) THEN RDiv(w, ar) ELSE h
    IN  IF RLt(w, BoxEps) /\ RLt(h, BoxEps)
        THEN Sentinel
        ELSE [center |-> <<RAdd(box[1], RMul(w, Rat(1, 2))), RAdd(box[2], RMul(h, Rat(1, 2)))>>,
              scale  |-> <<RMul(RMax(RDiv(w2, RInt(PIXEL_STD)), ScaleFloor), SCALE_FACTOR),
                           RMul(RMax(RDiv(h2, RInt(PIXEL_STD)), ScaleFloor), SCALE_FACTOR)>>]

\* _box_to_center_scale with the aspect ratio taken as height / width
BoxToCenterScaleInvertedAspect(box) ==
    LET w == box[3]
        h == box[4]
        ar == Rat(POSE_INPUT_H, POSE_INPUT_W)
        w2 == IF RLt(w, RMul(ar, h)) THEN RMul(h, ar) ELSE w
        h2 == IF RLt(RMul(ar, h), w) THEN RDiv(w, ar) ELSE h
    IN  IF RLt(w, BoxEps) \/ RLt(h, BoxEps)
        THEN Sentinel
        ELSE [center |-> <<RAdd(box[1], RMul(w, Rat(1, 2))), RAdd(box[2], RMul(h, Rat(1, 2)))>>,
              scale  |-> <<RMul(RMax(RDiv(w2, RInt(PIXEL_STD)), ScaleFloor), SCALE_FACTOR),
                           RMul(RMax(RDiv(h2, RInt(PIXEL_STD)), ScaleFloor), SCALE_FACTOR)>>]

_box_to_center_scale(box) ==
    LET x == box[1]
        y == box[2]
        w == box[3]
        h == box[4]
        half == Rat(1, 2)
        aspect_ratio == Rat(POSE_INPUT_W, POSE_INPUT_H)
        w2 == IF RLt(w, RMul(aspect_ratio, h)) THEN RMul(h, aspect_ratio) ELSE w
        h2 == IF RLt(RMul(aspect_ratio, h), w) THEN RDiv(w, aspect_ratio) ELSE h
        sx == RMax(RDiv(w2, RInt(PIXEL_STD)), ScaleFloor)
        sy == RMax(RDiv(h2, RInt(PIXEL_STD)), ScaleFloor)
    IN  IF RLt(w, BoxEps) \/ RLt(h, BoxEps)
        THEN Sentinel
        ELSE [center |-> <<RAdd(x, RMul(w, half)), RAdd(y, RMul(h, half))>>,
              scale  |-> <<RMul(sx, SCALE_FACTOR), RMul(sy, SCALE_FACTOR)>>]

----------------------------------------------------------------------------
(* Affine transform: _get_dir, _get_3rd_point, _get_affine_transform       *)

\* sin/cos of a rotation given in degrees; exact for multiples of 90
SinDeg(rot) == CASE rot % 360 = 0 -> 0 [] rot % 360 = 90 -> 1
                 [] rot % 360 = 180 -> 0 [] rot % 360 = 270 -> -1

CosDeg(rot) == CASE rot % 360 = 0 -> 1 [] rot % 360 = 90 -> 0
                 [] rot % 360 = 180 -> -1 [] rot % 360 = 270 -> 0

_get_dir(src_point, rot) ==
    LET sn == RInt(SinDeg(rot))
        cs == RInt(CosDeg(rot))
    IN  <<RSub(RMul(src_point[1], cs), RMul(src_point[2], sn)),
          RAdd(RMul(src_point[1], sn), RMul(src_point[2], cs))>>

\* _get_3rd_point without the quarter turn: the third point lies on the line
\* through a and b
Get3rdPointCollinear(a, b) ==
    LET direct == VSub(a, b)
    IN  VAdd(b, direct)

_get_3rd_point(a, b) ==
    LET direct == VSub(a, b)
    IN  VAdd(b, <<RNeg(direct[2]), direct[1]>>)

\* determinant of the rows (p_i[1], p_i[2], 1)
Det3(c1, c2) ==
    RAdd(RSub(RMul(c1[1], RSub(c2[2], c2[3])),
              RMul(c2[1], RSub(c1[2], c1[3]))),
         RSub(RMul(c1[2], c2[3]), RMul(c1[3], c2[2])))

\* cv2.getAffineTransform(src, dst): the 2x3 matrix M with M.(x,y,1) = dst_i
\* for the three point pairs (Cramer's rule); a singular system gives zeros.
getAffineTransform(src, dst) ==
    LET xs == <<src[1][1], src[2][1], src[3][1]>>
        ys == <<src[1][2], src[2][2], src[3][2]>>
        D  == Det3(xs, ys)
        Row(u) == <<RDiv(Det3(u, ys), D),
                    RDiv(Det3(xs, u), D),
                    RDiv(RAdd(RSub(RMul(u[1], RSub(RMul(xs[2], ys[3]), RMul(xs[3], ys[2]))),
                                   RMul(u[2], RSub(RMul(xs[1], ys[3]), RMul(xs[3], ys[1])))),
                              RMul(u[3], RSub(RMul(xs[1], ys[2]), RMul(xs[2], ys[1])))), D)>>
        zero == <<RInt(0), RInt(0), RInt(0)>>
    IN  IF D[1] = 0 THEN <<zero, zero>>
        ELSE <<Row(<<dst[1][1], dst[2][1], dst[3][1]>>),
               Row(<<dst[1][2], dst[2][2], dst[3][2]>>)>>

\* _get_affine_transform ignoring its inv flag (always source -> destination)
AffineTransformForwardOnly(center, scale, rot, output_size, inv) ==
    LET src_w == RMul(scale[1], RInt(PIXEL_STD))
        src0 == center
        src1 == VAdd(center, _get_dir(<<RInt(0), RMul(src_w, Rat(-1, 2))>>, rot))
        dst0 == <<RMul(output_size[1], Rat(1, 2)), RMul(output_size[2], Rat(1, 2))>>
        dst1 == VAdd(dst0, <<RInt(0), RMul(output_size[1], Rat(-1, 2))>>)
    IN  getAffineTransform(<<src0, src1, _get_3rd_point(src0, src1)>>,
                           <<dst0, dst1, _get_3rd_point(dst0, dst1)>>)

\* shift is always the default (0, 0)
_get_affine_transform(center, scale, rot, output_size, inv) ==
    LET scale_tmp == <<RMul(scale[1], RInt(PIXEL_STD)), RMul(scale[2], RInt(PIXEL_STD))>>
        src_w == scale_tmp[1]
        dst_w == output_size[1]
        dst_h == output_size[2]
        mhalf == Rat(-1, 2)
        half  == Rat(1, 2)
        src_dir == _get_dir(<<RInt(0), RMul(src_w, mhalf)>>, rot)
        dst_dir == <<RInt(0), RMul(dst_w, mhalf)>>
        src0 == center
        src1 == VAdd(center, src_dir)
        dst0 == <<RMul(dst_w, half), RMul(dst_h, half)>>
        dst1 == VAdd(dst0, dst_dir)
        src == <<src0, src1, _get_3rd_point(src0, src1)>>
        dst == <<dst0, dst1, _get_3rd_point(dst0, dst1)>>
    IN  IF inv THEN getAffineTransform(dst, src) ELSE getAffineTransform(src, dst)

_affine_transform(point, mat) ==
    <<RAdd(RAdd(RMul(mat[1][1], point[1]), RMul(mat[1][2], point[2])), mat[1][3]),
      RAdd(RAdd(RMul(mat[2][1], point[1]), RMul(mat[2][2], point[2])), mat[2][3])>>

----------------------------------------------------------------------------
(* Heatmap decode: _max_preds, _refine, _transform_preds, _decode_poses    *)
(* A heatmap tensor is [shape |-> <<dims>>, data |-> samples]; a 4-D one   *)
(* has data[i][j][y+1][x+1] = heatmaps[i-1, j-1, y, x] in fixed-point      *)
(* units (Scale units per 1.0).                                            *)

SeqMax(q) == CHOOSE m \in {q[i] : i \in 1..Len(q)} : \A i \in 1..Len(q) : q[i] <= m

\* np.argmax: the first (0-based) flat index holding the maximum
ArgMax(q) == (CHOOSE i \in 1..Len(q) : q[i] = SeqMax(q) /\ \A j \in 1..(i - 1) : q[j] < q[i]) - 1

\* heatmaps.reshape(n, k, -1): row-major flattening of one h x w grid
Reshape(grid, h, w) == [p \in 1..(h * w) |-> grid[((p - 1) \div w) + 1][((p - 1) % w) + 1]]

\* _max_preds unravelling the flat index column-major (by the height)
MaxPredsColumnMajor(heatmaps) ==
    LET n == heatmaps.shape[1]
        k == heatmaps.shape[2]
        h == heatmaps.shape[3]
        w == heatmaps.shape[4]
        flat(i, j) == Reshape(heatmaps.data[i][j], h, w)
        idx(i, j) == ArgMax(flat(i, j))
        maxval(i, j) == SeqMax(flat(i, j))
        pred_mask(i, j) == IF maxval(i, j) > 0 THEN 1 ELSE 0
    IN  [preds   |-> [i \in 1..n |-> [j \in 1..k |->
                        <<RInt((idx(i, j) % h) * pred_mask(i, j)),
                          RInt((idx(i, j) \div h) * pred_mask(i, j))>>]],
         maxvals |-> [i \in 1..n |-> [j \in 1..k |-> maxval(i, j)]]]

\* _max_preds without the maxvals > 0 mask
MaxPredsNoMask(heatmaps) ==
    LET n == heatmaps.shape[1]
        k == heatmaps.shape[2]
        h == heatmaps.shape[3]
        w == heatmaps.shape[4]
        flat(i, j) == Reshape(heatmaps.data[i][j], h, w)
        idx(i, j) == ArgMax(flat(i, j))
        maxval(i, j) == SeqMax(flat(i, j))
    IN  [preds   |-> [i \in 1..n |-> [j \in 1..k |->
                        <<RInt(idx(i, j) % w), RInt(idx(i, j) \div w)>>]],
         maxvals |-> [i \in 1..n |-> [j \in 1..k |-> maxval(i, j)]]]

_max_preds(heatmaps) ==
    LET n == heatmaps.shape[1]
        k == heatmaps.shape[2]
        h == heatmaps.shape[3]
        w == heatmaps.shape[4]
        flat(i, j) == Reshape(heatmaps.data[i][j], h, w)
        idx(i, j) == ArgMax(flat(i, j))
        maxval(i, j) == SeqMax(flat(i, j))
        pred_mask(i, j) == IF maxval(i, j) > 0 THEN 1 ELSE 0
    IN  [preds   |-> [i \in 1..n |-> [j \in 1..k |->
                        <<RInt((idx(i, j) % w) * pred_mask(i, j)),
                          RInt((idx(i, j) \div w) * pred_mask(i, j))>>]],
         maxvals |-> [i \in 1..n |-> [j \in 1..k |-> maxval(i, j)]]]

\* _refine with the interior test starting one pixel early (0 < px, 0 < py)
RefineFromFirstPixel(coords, heatmaps) ==
    LET h == heatmaps.shape[3]
        w == heatmaps.shape[4]
        at(i, j, y, x) == heatmaps.data[i][j][y + 1][x + 1]
        one(i, j) ==
            LET px == RTrunc(coords[i][j][1])
                py == RTrunc(coords[i][j][2])
            IN  IF 0 < px /\ px < w - 1 /\ 0 < py /\ py < h - 1
                THEN <<RAdd(coords[i][j][1],
                            RMul(RInt(Sign(at(i, j, py, px + 1) - at(i, j, py, px - 1))), Rat(1, 4))),
                       RAdd(coords[i][j][2],
                            RMul(RInt(Sign(at(i, j, py + 1, px) - at(i, j, py - 1, px))), Rat(1, 4)))>>
                ELSE coords[i][j]
    IN  [i \in DOMAIN coords |-> [j \in DOMAIN coords[i] |-> one(i, j)]]

_refine(coords, heatmaps) ==
    LET h == heatmaps.shape[3]
        w == heatmaps.shape[4]
        at(i, j, y, x) == heatmaps.data[i][j][y + 1][x + 1]
        one(i, j) ==
            LET px == RTrunc(coords[i][j][1])
                py == RTrunc(coords[i][j][2])
            IN  IF 1 < px /\ px < w - 1 /\ 1 < py /\ py < h - 1
                THEN <<RAdd(coords[i][j][1],
                            RMul(RInt(Sign(at(i, j, py, px + 1) - at(i, j, py, px - 1))), Rat(1, 4))),
                       RAdd(coords[i][j][2],
                            RMul(RInt(Sign(at(i, j, py + 1, px) - at(i, j, py - 1, px))), Rat(1, 4)))>>
                ELSE coords[i][j]
    IN  [i \in DOMAIN coords |-> [j \in DOMAIN coords[i] |-> one(i, j)]]

\* Requires centers[i] and scales[i] for every sample i of coords.
_transform_preds(coords, centers, scales, output_size) ==
    [i \in DOMAIN coords |->
        LET trans == _get_affine_transform(centers[i], scales[i], 0, output_size, TRUE)
        IN  [j \in DOMAIN coords[i] |-> _affine_transform(coords[i][j], trans)]]

Max2(a, b) == IF a > b THEN a ELSE b

\* OnnxViTPose._decode_poses; the result records the exception a step raises:
\* unpacking heatmaps.shape into n, k, h, w needs exactly four dimensions and
\* centers[i] / scales[i] must exist for every sample index i < n.
_decode_poses(heatmaps, centers, scales) ==
    IF Len(heatmaps.shape) # 4
    THEN [raised |-> "ValueError"]
    ELSE IF Len(centers) < heatmaps.shape[1] \/ Len(scales) < heatmaps.shape[1]
    THEN [raised |-> "IndexError"]
    ELSE
    LET mp == _max_preds(heatmaps)
        refined == _refine(mp.preds, heatmaps)
        scale_x == Rat(POSE_INPUT_W, Max2(1, heatmaps.shape[4]))
        scale_y == Rat(POSE_INPUT_H, Max2(1, heatmaps.shape[3]))
        scaled == [i \in DOMAIN refined |-> [j \in DOMAIN refined[i] |->
                     <<RMul(refined[i][j][1], scale_x), RMul(refined[i][j][2], scale_y)>>]]
    IN  [raised |-> "none",
         input  |-> scaled,
         coords |-> _transform_preds(scaled, centers, scales, POSE_INPUT_SIZE),
         conf   |-> mp.maxvals]

----------------------------------------------------------------------------
(* smooth.py: samples, gap fill, one-euro filter, Savitzky-Golay filter    *)

\* fixed-point units per 1.0 of a float32 sample
Scale == 1000

\* 2 * math.pi in fixed-point units
TwoPi == 6283

Fin(v) == [k |-> "fin", v |-> v]

NaN == [k |-> "nan", v |-> 0]

Inf == [k |-> "inf", v |-> 0]

\* np.isfinite / math.isfinite
IsFinite(s) == s.k = "fin"

\* a / b rounded to the nearest integer (b > 0)
RoundDiv(a, b) == (2 * a + b) \div (2 * b)

\* np.interp(x, xp, fp) for an index x, xp an increasing sequence of indices
\* and fp the values there: linear between neighbours, edge values outside.
NpInterp(x, xp, fp) ==
    IF x <= xp[1] THEN fp[1]
    ELSE IF x >= xp[Len(xp)] THEN fp[Len(fp)]
    ELSE LET j == CHOOSE t \in 1..(Len(xp) - 1) : xp[t] <= x /\ x < xp[t + 1]
         IN  fp[j] + RoundDiv((fp[j + 1] - fp[j]) * (x - xp[j]), xp[j + 1] - xp[j])

\* the increasing sequence of the members of a finite set of integers
SortedSeq(S) ==
    [t \in 1..Cardinality(S) |->
        CHOOSE i \in S : Cardinality({j \in S : j <= i}) = t]

\* _interp_nans holding the previous finite sample instead of interpolating
InterpNansHoldPrevious(values) ==
    LET valid == {i \in 1..Len(values) : IsFinite(values[i])}
        Before(i) == {j \in valid : j < i}
        Last(S) == CHOOSE a \in S : \A b \in S : b <= a
        First(S) == CHOOSE a \in S : \A b \in S : a <= b
    IN  [i \in 1..Len(values) |->
            IF i \in valid THEN values[i]
            ELSE IF valid = {} THEN Fin(0)
            ELSE IF Before(i) = {} THEN values[First(valid)]
            ELSE values[Last(Before(i))]]

_interp_nans(values) ==
    LET mask  == {i \in 1..Len(values) : ~IsFinite(values[i])}
        valid == SortedSeq({i \in 1..Len(values) : IsFinite(values[i])})
        fp    == [t \in 1..Len(valid) |-> values[valid[t]].v]
    IN  IF mask = {} THEN values
        ELSE IF Len(valid) = 0 THEN [i \in 1..Len(values) |-> Fin(0)]
        ELSE [i \in 1..Len(values) |->
                IF i \in mask THEN Fin(NpInterp(i, valid, fp)) ELSE values[i]]

\* _lowpass weighting the previous output by 1 + alpha instead of 1 - alpha
LowpassPlusAlpha(prev, value, alpha) == RoundDiv(alpha * value + (Scale + alpha) * prev, Scale)

_lowpass(prev, value, alpha) == RoundDiv(alpha * value + (Scale - alpha) * prev, Scale)

\* _alpha(cutoff, dt) = 1 / (1 + tau / dt) with tau = 1 / (2 pi cutoff) and
\* dt = 1 / fps, that is 2 pi cutoff / (2 pi cutoff + fps)
_alpha(cutoff, fps) ==
    LET a == RoundDiv(TwoPi * cutoff, Scale)
    IN  RoundDiv(a * Scale, a + fps)

\* np.interp(strength, [0.0, 1.0], [lo, hi]) (clamped outside [0, 1])
InterpStrength(strength, lo, hi) ==
    IF strength <= 0 THEN lo
    ELSE IF strength >= Scale THEN hi
    ELSE lo + RoundDiv((hi - lo) * strength, Scale)

\* OneEuroStep with the speed term of the cutoff dropped (beta ignored)
OneEuroStepNoSpeedTerm(st, value, fps, min_cutoff, beta) ==
    <<_lowpass(st[1], value, _alpha(min_cutoff, fps)), 0>>

\* one iteration of the loop of _one_euro: from st = <<prev, dx_prev>> and
\* the sample to the next <<prev, dx_prev>>
OneEuroStep(st, value, fps, min_cutoff, beta) ==
    LET prev      == st[1]
        dx_prev   == st[2]
        dx        == RoundDiv((value - prev) * fps, Scale)
        alpha_d   == _alpha(Scale, fps)
        dx_hat    == _lowpass(dx_prev, dx, alpha_d)
        cutoff    == min_cutoff + RoundDiv(beta * Abs(dx_hat), Scale)
        alpha_val == _alpha(cutoff, fps)
    IN  <<_lowpass(prev, value, alpha_val), dx_hat>>

\* the loop of _one_euro from sample i on, out holding the outputs so far
RECURSIVE OneEuroLoop(_, _, _, _, _, _, _)
OneEuroLoop(series, i, fps, min_cutoff, beta, out, st) ==
    IF i > Len(series) THEN out
    ELSE Bind(OneEuroStep(st, series[i], fps, min_cutoff, beta),
              LAMBDA nxt : OneEuroLoop(series, i + 1, fps, min_cutoff, beta,
                                       Append(out, nxt[1]), nxt))

\* _one_euro with the min_cutoff endpoints swapped (0.4 at strength 0, 2.5 at 1)
OneEuroCutoffRising(series, fps, strength) ==
    LET fpsEff     == Max2(1, fps)
        min_cutoff == InterpStrength(strength, 400, 2500)
        beta       == InterpStrength(strength, 0, Scale)
    IN  IF Len(series) = 0 THEN [raised |-> "IndexError"]
        ELSE [raised |-> "none",
              out |-> OneEuroLoop(series, 2, fpsEff, min_cutoff, beta,
                                  <<series[1]>>, <<series[1], 0>>)]

\* _one_euro whose state starts from the last sample (prev = series[-1])
OneEuroSeededFromLast(series, fps, strength) ==
    LET fpsEff     == Max2(1, fps)
        min_cutoff == InterpStrength(strength, 2500, 400)
        beta       == InterpStrength(strength, 0, Scale)
    IN  IF Len(series) = 0 THEN [raised |-> "IndexError"]
        ELSE [raised |-> "none",
              out |-> OneEuroLoop(series, 2, fpsEff, min_cutoff, beta,
                                  <<series[Len(series)]>>, <<series[Len(series)], 0>>)]

\* _one_euro on a series of finite units; series[0] of an empty series raises
_one_euro(series, fps, strength) ==
    LET fpsEff     == Max2(1, fps)
        min_cutoff == InterpStrength(strength, 2500, 400)
        beta       == InterpStrength(strength, 0, Scale)
    IN  IF Len(series) = 0 THEN [raised |-> "IndexError"]
        ELSE [raised |-> "none",
              out |-> OneEuroLoop(series, 2, fpsEff, min_cutoff, beta,
                                  <<series[1]>>, <<series[1], 0>>)]

\* sum of f(t) for t in lo..hi
RECURSIVE SumRange(_, _, _)
SumRange(f(_), lo, hi) == IF lo > hi THEN 0 ELSE f(lo) + SumRange(f, lo + 1, hi)

\* scipy.signal.savgol_filter(series, window_length, polyorder=2), default
\* mode "interp": every output is the value at its own position of the least
\* squares parabola through the window centred on it, the first and last
\* half-window being read off the parabola of the first / last full window.
\* It rejects a window longer than the series or not longer than polyorder.
savgol_filter(series, window_length, polyorder) ==
    LET n  == Len(series)
        m  == (window_length - 1) \div 2
        Sq(t) == t * t
        Qu(t) == t * t * t * t
        S0 == 2 * m + 1
        S2 == SumRange(Sq, -m, m)
        S4 == SumRange(Qu, -m, m)
        Q  == S0 * S4 - S2 * S2
        Num(t, u) == (S4 - S2 * (u * u + t * t) + S0 * t * t * u * u) * S2 + t * u * Q
        At(i) ==
            LET c == IF i <= m THEN m + 1 ELSE IF i > n - m THEN n - m ELSE i
                Term(u) == Num(i - c, u) * series[c + u]
            IN  RoundDiv(SumRange(Term, -m, m), Q * S2)
    IN  IF window_length > n \/ polyorder >= window_length \/ window_length % 2 = 0
        THEN [raised |-> "ValueError"]
        ELSE [raised |-> "none", out |-> [i \in 1..n |-> At(i)]]

\* SavgolWindow without the step that makes an even window odd
SavgolWindowNoOddStep(n, strength) ==
    LET w0 == (3 * Scale + strength * 18) \div Scale
        w2 == IF w0 >= n THEN (IF n % 2 = 0 THEN n - 1 ELSE n) ELSE w0
    IN  IF w2 < 3 THEN 3 ELSE w2

\* SavgolWindow without the clamp to the series length
SavgolWindowNoClamp(n, strength) ==
    LET raw == 3 * Scale + strength * 18
        w0  == IF raw >= 0 THEN raw \div Scale ELSE -((-raw) \div Scale)
        w1  == IF w0 % 2 = 0 THEN w0 + 1 ELSE w0
    IN  IF w1 < 3 THEN 3 ELSE w1

\* the window length _savgol derives from the strength (lines 55-61)
SavgolWindow(n, strength) ==
    LET raw == 3 * Scale + strength * 18
        w0  == IF raw >= 0 THEN raw \div Scale ELSE -((-raw) \div Scale)
        w1  == IF w0 % 2 = 0 THEN w0 + 1 ELSE w0
        w2  == IF w1 >= n THEN (IF n % 2 = 0 THEN n - 1 ELSE n) ELSE w1
    IN  IF w2 < 3 THEN 3 ELSE w2

_savgol(series, strength) ==
    IF Len(series) < 3
    THEN [raised |-> "none", window |-> 0, out |-> series]
    ELSE LET window == SavgolWindow(Len(series), strength)
             f == savgol_filter(series, window, 2)
         IN  IF f.raised # "none" THEN [raised |-> f.raised, window |-> window]
             ELSE [raised |-> "none", window |-> window, out |-> f.out]

\* smooth_sequence running its gap fill and filter over all three columns
\* (for axis in range(3)), the confidence included
SmoothSequenceAllColumns(sequence, joint_ids, fps, mode, strength) ==
    LET joints == joint_ids
        frames == Len(sequence)
        data == [fi \in 1..frames |-> [ji \in 1..Len(joints) |->
                    IF joints[ji] \in DOMAIN sequence[fi]
                    THEN sequence[fi][joints[ji]]
                    ELSE <<NaN, NaN, NaN>>]]
        smooth_axis(ji, axis) ==
            Bind(_interp_nans(SubSeq([fi \in 1..frames |-> data[fi][ji][axis]], 1, frames)),
                 LAMBDA f :
                    Bind(SubSeq([fi \in 1..frames |-> f[fi].v], 1, frames),
                         LAMBDA filled :
                            IF mode = "savgol"
                            THEN _savgol(filled, strength)
                            ELSE _one_euro(filled, fps, strength)))
        result(smoothed) ==
            LET failed == {smoothed[ji][axis].raised :
                             ji \in 1..Len(joints), axis \in 1..3} \ {"none"}
                value(fi, ji, axis) == Fin(smoothed[ji][axis].out[fi])
                frame_dict(fi) ==
                    LET kept == {ji \in 1..Len(joints) :
                                    IsFinite(value(fi, ji, 1)) /\ IsFinite(value(fi, ji, 2))}
                    IN  [jid \in {joints[ji] : ji \in kept} |->
                            LET ji == CHOOSE t \in kept : joints[t] = jid
                            IN  <<value(fi, ji, 1).v, value(fi, ji, 2).v, value(fi, ji, 3).v>>]
            IN  IF failed # {}
                THEN [raised |-> CHOOSE r \in failed : TRUE]
                ELSE [raised |-> "none", out |-> [fi \in 1..frames |-> frame_dict(fi)]]
    IN  Bind(SubSeq([ji \in 1..Len(joints) |->
                        <<smooth_axis(ji, 1), smooth_axis(ji, 2), smooth_axis(ji, 3)>>],
                    1, Len(joints)),
             result)

\* smooth_sequence(sequence, joint_ids, fps, mode, strength).  A frame is a
\* function from the joint ids it holds to <<x, y, c>> samples; the result
\* is [raised, out] with out one function per frame from joint id to
\* <<x, y, c>> units.
smooth_sequence(sequence, joint_ids, fps, mode, strength) ==
    LET joints == joint_ids
        frames == Len(sequence)
        data == [fi \in 1..frames |-> [ji \in 1..Len(joints) |->
                    IF joints[ji] \in DOMAIN sequence[fi]
                    THEN sequence[fi][joints[ji]]
                    ELSE <<NaN, NaN, NaN>>]]
        smooth_axis(ji, axis) ==
            Bind(_interp_nans(SubSeq([fi \in 1..frames |-> data[fi][ji][axis]], 1, frames)),
                 LAMBDA f :
                    Bind(SubSeq([fi \in 1..frames |-> f[fi].v], 1, frames),
                         LAMBDA filled :
                            IF mode = "savgol"
                            THEN _savgol(filled, strength)
                            ELSE _one_euro(filled, fps, strength)))
        result(smoothed) ==
            LET failed == {smoothed[ji][axis].raised :
                             ji \in 1..Len(joints), axis \in 1..2} \ {"none"}
                value(fi, ji, axis) == Fin(smoothed[ji][axis].out[fi])
                frame_dict(fi) ==
                    LET kept == {ji \in 1..Len(joints) :
                                    IsFinite(value(fi, ji, 1)) /\ IsFinite(value(fi, ji, 2))}
                    IN  [jid \in {joints[ji] : ji \in kept} |->
                            LET ji == CHOOSE t \in kept : joints[t] = jid
                                c  == data[fi][ji][3]
                            IN  <<value(fi, ji, 1).v, value(fi, ji, 2).v,
                                  IF IsFinite(c) THEN c.v ELSE 0>>]
            IN  IF failed # {}
                THEN [raised |-> CHOOSE r \in failed : TRUE]
                ELSE [raised |-> "none", out |-> [fi \in 1..frames |-> frame_dict(fi)]]
    IN  Bind(SubSeq([ji \in 1..Len(joints) |-> <<smooth_axis(ji, 1), smooth_axis(ji, 2)>>],
                    1, Len(joints)),
             result)

\* smooth_sequence statement by statement, for calls that overlap.

\* lines 69-74: the (frames, joints, 3) array, NaN where a joint is missing
SmoothData(sequence, joints) ==
    [fi \in 1..Len(sequence) |-> [ji \in 1..Len(joints) |->
        IF joints[ji] \in DOMAIN sequence[fi]
        THEN sequence[fi][joints[ji]]
        ELSE <<NaN, NaN, NaN>>]]

\* lines 78-83: column = data[:, ji, axis], gap-filled and filtered
SmoothedColumn(data, ji, axis, fps, mode, strength) ==
    LET column == [fi \in 1..Len(data) |-> data[fi][ji][axis]]
        f      == _interp_nans(column)
        filled == [fi \in 1..Len(data) |-> f[fi].v]
    IN  IF mode = "savgol" THEN _savgol(filled, strength)
        ELSE _one_euro(filled, fps, strength)

\* line 84: data[:, ji, axis] = smoothed
StoreColumn(data, ji, axis, smoothed) ==
    [fi \in 1..Len(data) |->
        [data[fi] EXCEPT ![ji] = [@ EXCEPT ![axis] = Fin(smoothed[fi])]]]

\* lines 86-95: the output frames read back from data
SmoothOut(data, joints) ==
    [fi \in 1..Len(data) |->
        LET kept == {ji \in 1..Len(joints) :
                        IsFinite(data[fi][ji][1]) /\ IsFinite(data[fi][ji][2])}
        IN  [jid \in {joints[ji] : ji \in kept} |->
                LET ji == CHOOSE t \in kept : joints[t] = jid
                    c  == data[fi][ji][3]
                IN  <<data[fi][ji][1].v, data[fi][ji][2].v,
                      IF IsFinite(c) THEN c.v ELSE 0>>]]

\* every call allocates its own data array (np.zeros inside the function):
\* all calls working in one module-level array
WorkspaceShared(t) == 1

\* every call allocates its own data array (np.zeros inside the function):
\* the array call t works in
Workspace(t) == t

----------------------------------------------------------------------------
(* Unit-space normalisation: main._normalize_point, exporter._denormalize  *)

_normalize_point(x, y, width, height) ==
    <<RSub(RMul(RDiv(x, width), RInt(2)), RInt(1)),
      RSub(RInt(1), RMul(RDiv(y, height), RInt(2)))>>

\* Python round(): to the nearest integer, ties to the even one
PyRound(r) ==
    LET f == RFloor(r)
        twice == RSub(RMul(r, RInt(2)), RInt(2 * f))
    IN  IF RLt(twice, RInt(1)) THEN f
        ELSE IF RLt(RInt(1), twice) THEN f + 1
        ELSE IF f % 2 = 0 THEN f ELSE f + 1

\* _denormalize without the flip of the y axis
DenormalizeNoFlip(point, width, height) ==
    <<PyRound(RMul(RMul(RAdd(point[1], RInt(1)), Rat(1, 2)), width)),
      PyRound(RMul(RMul(RAdd(point[2], RInt(1)), Rat(1, 2)), height))>>

\* point = <<nx, ny>>: the "x" and "y" entries of the keypoint
_denormalize(point, width, height) ==
    LET x == RMul(RMul(RAdd(point[1], RInt(1)), Rat(1, 2)), width)
        y == RMul(RMul(RSub(RInt(1), point[2]), Rat(1, 2)), height)
    IN  <<PyRound(x), PyRound(y)>>

----------------------------------------------------------------------------
(* mappings.py: the joint index -> editor joint id tables.  A dict is a    *)
(* function on its keys; the dict handed to update() is the sequence of    *)
(* its <<key, value>> items in insertion order.                            *)

MAP_VITPOSE_17_TO_EDITOR ==
    LET names == <<"nose", "leftEye", "rightEye", "leftEar", "rightEar",
                   "leftShoulder", "rightShoulder", "leftElbow", "rightElbow",
                   "leftWrist", "rightWrist", "leftHip", "rightHip",
                   "leftKnee", "rightKnee", "leftAnkle", "rightAnkle">>
    IN  [key \in 0..16 |-> names[key + 1]]

\* the literal handed to the first update()
FeetSection == <<<<17, "leftBigToe">>, <<18, "leftSmallToe">>, <<19, "leftHeel">>,
                 <<20, "rightBigToe">>, <<21, "rightSmallToe">>, <<22, "rightHeel">>>>

Fingers == <<"Thumb", "Index", "Middle", "Ring", "Pinky">>

\* _add_hand_section with three segments per finger
AddHandSectionThreeSegments(start, side) ==
    <<<<start, side \o "Palm">>>>
    \o [p \in 1..(Len(Fingers) * 3) |->
            <<start + p,
              side \o Fingers[((p - 1) \div 3) + 1] \o ToString(((p - 1) % 3) + 1)>>]

\* the palm at start, then for each finger its segments 1..4 at the next
\* indices: the p-th insertion of the two loops takes idx = start + p
_add_hand_section(start, side) ==
    <<<<start, side \o "Palm">>>>
    \o [p \in 1..(Len(Fingers) * 4) |->
            <<start + p,
              side \o Fingers[((p - 1) \div 4) + 1] \o ToString(((p - 1) % 4) + 1)>>]

_add_face_section(start, prefix, count) ==
    [p \in 1..count |-> <<start + (p - 1), prefix \o ToString(p - 1)>>]

\* the (prefix, count) list of the face loop
FaceSections == <<<<"faceContour", 17>>, <<"rightEyebrow", 5>>, <<"leftEyebrow", 5>>,
                  <<"noseBridge", 4>>, <<"noseLower", 5>>, <<"rightEye", 6>>,
                  <<"leftEye", 6>>, <<"outerLip", 12>>, <<"innerLip", 8>>>>

\* d[key] = value
DictSet(d, key, value) ==
    [k \in (DOMAIN d) \cup {key} |-> IF k = key THEN value ELSE d[k]]

----------------------------------------------------------------------------
(* main.py: the /process handler for the "hf" backend.  A person returned  *)
(* by pipe.infer_frame is [xy |-> pixel point, sc |-> confidence] for the  *)
(* joints of map_source; a keypoint entry holds x, y, c in units.          *)

\* a Python float stored as a float32 sample: the nearest unit
ToUnits(r) == RoundDiv(r[1] * Scale, r[2])

\* lines 160-166: entry[joint_id] = {"x": nx, "y": ny, "c": float(sc[j_idx])}
PersonEntry(person, map_source, width, height) ==
    [joint_id \in {map_source[k] : k \in DOMAIN map_source} |->
        LET j_idx == CHOOSE k \in DOMAIN map_source : map_source[k] = joint_id
            n == _normalize_point(person.xy[j_idx][1], person.xy[j_idx][2],
                                  RInt(width), RInt(height))
        IN  [x |-> ToUnits(n[1]), y |-> ToUnits(n[2]), c |-> person.sc[j_idx]]]

\* lines 158-170: the "persons" list of one frame
PersonDicts(persons, map_source, personMode, width, height) ==
    LET dicts == [i \in 1..Len(persons) |-> PersonEntry(persons[i], map_source, width, height)]
        person_dicts == IF Len(dicts) = 0 THEN << <<>> >> ELSE dicts
    IN  IF personMode = "single" THEN <<person_dicts[1]>> ELSE person_dicts

\* fr["persons"] and fr["persons"][0]: the frame holds a first person
HasFirstPerson(fr) ==
    /\ Len(fr.persons) > 0
    /\ DOMAIN fr.persons[1] # {}

\* line 205: the test that guards the smoothing block
SmoothingGuard(k2d_frames) ==
    /\ Len(k2d_frames) > 0
    /\ HasFirstPerson(k2d_frames[1])

\* lines 206-214: joint_ids and the sequence handed to smooth_sequence; the
\* keys of an entry are the values of map_source in its order
FirstPersonJoints(k2d_frames, map_source) ==
    LET keys == SortedSeq(DOMAIN map_source)
    IN  [q \in 1..Len(keys) |-> map_source[keys[q]]]

FirstPersonSequence(k2d_frames, joint_ids) ==
    [fi \in 1..Len(k2d_frames) |->
        [jid \in {joint_ids[q] : q \in 1..Len(joint_ids)} |->
            IF HasFirstPerson(k2d_frames[fi])
            THEN <<Fin(k2d_frames[fi].persons[1][jid].x),
                   Fin(k2d_frames[fi].persons[1][jid].y),
                   Fin(k2d_frames[fi].persons[1][jid].c)>>
            ELSE <<NaN, NaN, Fin(0)>>]]

\* lines 217-222: x and y of the first person replaced by the smoothed ones
WriteBackSmoothed(k2d_frames, joint_ids, smoothed) ==
    [fi \in 1..Len(k2d_frames) |->
        IF ~HasFirstPerson(k2d_frames[fi]) THEN k2d_frames[fi]
        ELSE [k2d_frames[fi] EXCEPT !.persons[1] =
                [jid \in DOMAIN @ |->
                    IF \E q \in 1..Len(joint_ids) : joint_ids[q] = jid
                    THEN [@[jid] EXCEPT !.x = smoothed[fi][jid][1],
                                        !.y = smoothed[fi][jid][2]]
                    ELSE @[jid]]]]

----------------------------------------------------------------------------
(* Bounds of the explored inputs                                           *)

\* frames per track
MaxFrames == 3

\* samples per series handed to _interp_nans
MaxLen == 4

\* pose samples per heatmap batch
MaxN == 2

\* heatmap height and width
GridH == 4

GridW == 5

\* frame width and height of the normaliser, in pixels
MaxWidth == 3

MaxHeight == 2

\* samples of the longest series handed to _savgol (the widest window is 21)
MaxSeries == 23

\* smooth_sequence calls in progress at a time
MaxCalls == 2

----------------------------------------------------------------------------
(* Inputs                                                                  *)

\* all sequences over S of length 0..n
RECURSIVE SeqsUpTo(_, _)
SeqsUpTo(S, n) ==
    IF n = 0 THEN {<<>>}
    ELSE LET shorter == SeqsUpTo(S, n - 1)
         IN  shorter \cup {Append(q, e) : q \in {t \in shorter : Len(t) = n - 1}, e \in S}

\* box coordinates: negative, zero, below / at the 1e-6 epsilon, below / at
\* the 0.2 px at which the 1e-3 scale floor sets in, and ordinary sizes
BoxExtents == {Rat(-1, 1), Rat(0, 1), Rat(1, 2000000), Rat(1, 1000000),
               Rat(1, 10), Rat(1, 5), Rat(1, 1), Rat(30, 1), Rat(40, 1),
               Rat(48, 1), Rat(64, 1)}

BoxOrigins == {Rat(0, 1), Rat(10, 1), Rat(-7, 2)}

Boxes == {<<x, y, w, h>> : x \in BoxOrigins, y \in BoxOrigins,
                            w \in BoxExtents, h \in BoxExtents}

\* boxes the detector hands to the decode: degenerate ones and ordinary ones
DecodeBoxes == {<<RInt(0), RInt(0), RInt(0), RInt(0)>>,
                <<RInt(5), RInt(7), RInt(0), RInt(0)>>,
                <<RInt(10), RInt(20), RInt(48), RInt(64)>>,
                <<RInt(10), RInt(20), RInt(30), RInt(20)>>}

PeakGrid(px, py, base, peak) ==
    [y \in 1..GridH |-> [x \in 1..GridW |->
        IF x - 1 = px /\ y - 1 = py THEN peak ELSE base]]

\* a peak of 1.0 at (px, py) and a lower bump of 0.5 at (qx, qy)
BumpGrid(px, py, qx, qy) ==
    [y \in 1..GridH |-> [x \in 1..GridW |->
        IF x - 1 = px /\ y - 1 = py THEN Scale
        ELSE IF x - 1 = qx /\ y - 1 = qy THEN Scale \div 2 ELSE 0]]

Pixels == (0..(GridW - 1)) \X (0..(GridH - 1))

Grids ==
    {PeakGrid(0, 0, 0, 0)}
    \cup {PeakGrid(p[1], p[2], 0, Scale) : p \in Pixels}
    \cup {PeakGrid(p[1], p[2], -Scale, -(Scale \div 10)) : p \in Pixels}
    \cup {BumpGrid(pq[1][1], pq[1][2], pq[2][1], pq[2][2]) :
            pq \in {r \in Pixels \X Pixels :
                        Abs(r[1][1] - r[2][1]) + Abs(r[1][2] - r[2][2]) = 1}}

\* an h x w heatmap that is 1.0 at (px, py) and 0.0 elsewhere
SinglePixel(h, w, px, py) ==
    [y \in 1..h |-> [x \in 1..w |-> IF x - 1 = px /\ y - 1 = py THEN Scale ELSE 0]]

\* one-sample, one-joint heatmap tensors handed to _max_preds: a single lit
\* pixel at every position of every size up to GridH x GridW, and the
\* full-size grids
PredTensors ==
    {[shape |-> <<1, 1, q[1], q[2]>>,
      data  |-> <<<<SinglePixel(q[1], q[2], q[3], q[4])>>>>] :
        q \in {r \in (1..GridH) \X (1..GridW) \X (0..(GridW - 1)) \X (0..(GridH - 1)) :
                  r[3] < r[2] /\ r[4] < r[1]}}
    \cup {[shape |-> <<1, 1, GridH, GridW>>, data |-> <<<<g>>>>] : g \in Grids}

Tensor4(samples) == [shape |-> <<Len(samples), 1, GridH, GridW>>,
                     data  |-> [i \in 1..Len(samples) |-> <<samples[i]>>]]

BatchGrids == {PeakGrid(0, 0, 0, 0), PeakGrid(2, 2, 0, Scale), PeakGrid(1, 3, 0, Scale)}

\* well-formed batches of 1..MaxN samples, a 3-D tensor (batch axis missing)
\* and a 5-D tensor (an extra axis)
Tensors ==
    {Tensor4(q) : q \in SeqsUpTo(BatchGrids, MaxN) \ {<<>>}}
    \cup {[shape |-> <<1, GridH, GridW>>, data |-> <<g>>] : g \in BatchGrids}
    \cup {[shape |-> <<1, 1, 1, GridH, GridW>>, data |-> <<<<<<g>>>>>>] : g \in BatchGrids}

CenterList == <<<<RInt(25), RInt(30)>>, <<RInt(0), RInt(0)>>, <<RInt(96), RInt(128)>>,
                <<RInt(7), RInt(9)>>>>

ScaleList == <<<<Rat(3, 16), Rat(1, 4)>>, <<RInt(1), RInt(1)>>, <<Rat(3, 10), Rat(2, 5)>>,
               <<Rat(3, 16), Rat(1, 4)>>>>

\* samples of a track: detected, detected elsewhere, the "missing" marker of
\* the /process handler, and a sample with only x known
TrackSamples == {<<Fin(0), Fin(0), Fin(900)>>,
                 <<Fin(1000), Fin(-500), Fin(500)>>,
                 <<NaN, NaN, Fin(0)>>,
                 <<Fin(1000), NaN, NaN>>}

TrackFrames ==
    {<<>>}
    \cup {[j \in {"nose"} |-> s] : s \in TrackSamples}
    \cup {[j \in {"nose", "leftEye"} |->
            IF j = "nose" THEN <<Fin(0), Fin(0), Fin(900)>>
            ELSE <<Fin(250), Fin(250), Fin(800)>>]}

\* the 10-frame oscillating "nose" track of the end-to-end scenario
ScenarioTrack ==
    [fi \in 1..10 |-> [j \in {"nose"} |->
        <<Fin(IF fi % 2 = 1 THEN 0 ELSE Scale), Fin(Scale \div 2), Fin(900)>>]]

Tracks == SeqsUpTo(TrackFrames, MaxFrames) \cup {ScenarioTrack}

JointLists == {<<"nose">>, <<"nose", "leftEye">>}

Modes == {"oneEuro", "savgol", "kalman"}

SmoothStrengths == {0, 900}

FpsChoices == {24 * Scale, 30 * Scale}

SeriesSamples == {NaN, Inf, Fin(1000), Fin(4000), Fin(-2000)}

\* series handed to _savgol, of every length 0..7
SavgolSeries == {[i \in 1..n |-> IF i % 2 = 1 THEN 0 ELSE Scale] : n \in 0..7}

\* longer series at rest, up to MaxSeries samples
RestSeries == {[i \in 1..n |-> 0] : n \in 8..MaxSeries}

Strengths == 0..Scale

\* the joints of map_source followed through the handler
ProcessMap == [j_idx \in {0} |-> MAP_VITPOSE_17_TO_EDITOR[j_idx]]

\* the decoded frames are ProcessSize x ProcessSize pixels
ProcessSize == 4

\* what pipe.infer_frame returns for a frame: nobody, one person (at one of
\* two places) or two persons
InferResults ==
    LET near == [xy |-> [j \in {0} |-> <<RInt(1), RInt(2)>>], sc |-> [j \in {0} |-> 900]]
        far  == [xy |-> [j \in {0} |-> <<RInt(4), RInt(0)>>], sc |-> [j \in {0} |-> 500]]
    IN  {<<>>, <<near>>, <<far>>, <<far, near>>}

\* the ProcessorOptions the handler reads; fps is the default 24
ProcessOptions ==
    {[personMode |-> pm, smooth |-> [type |-> ty, strength |-> 600], fps |-> 24 * Scale] :
        pm \in {"single", "multi"}, ty \in {"oneEuro", "savgol"}}

Calls == 1..MaxCalls

\* independent tracks smoothed by overlapping calls: a moving nose, a nose
\* missing from the middle frame, and a nose seen elsewhere
ConcurrentTracks ==
    LET here  == [j \in {"nose"} |-> <<Fin(0), Fin(0), Fin(900)>>]
        there == [j \in {"nose"} |-> <<Fin(1000), Fin(-500), Fin(500)>>]
    IN  {<<here, there, here>>, <<here, <<>>, there>>, <<there, there, here>>}

ConcurrentArgs ==
    {[sequence |-> t, joint_ids |-> <<"nose">>, fps |-> 30 * Scale, mode |-> m,
      strength |-> 600] : t \in ConcurrentTracks, m \in {"oneEuro", "savgol"}}

\* a series alternating around 0.5 with the given peak-to-peak amplitude
Oscillation(amplitude, n) ==
    [i \in 1..n |-> IF i % 2 = 1 THEN (Scale - amplitude) \div 2
                                  ELSE (Scale + amplitude) \div 2]

\* peak-to-peak amplitudes 0.1 and 1.0
Amplitudes == {Scale \div 10, Scale}

Oscillations == {Oscillation(a, n) : a \in Amplitudes, n \in {MaxLen, 10}}

\* series handed to _one_euro: every series of up to MaxLen samples over
\* two levels, and the oscillations
OneEuroSeries == SeqsUpTo({0, Scale}, MaxLen) \cup Oscillations

OneEuroStrengths == {0, 250, 500, 750, Scale}

\* 0 (floored to 1e-3 by the filter), 1, 24, 30 and 120 frames per second
OneEuroFps == {0, Scale, 24 * Scale, 30 * Scale, 120 * Scale}

\* boxes whose crop transform is built: degenerate ones (the sentinel), ones
\* on the scale floor and ordinary ones
AffineBoxes == {b \in Boxes : b[3] # Rat(1, 1000000) /\ b[4] # Rat(1, 1000000)}

\* points carried through the crop transform and back
AffinePoints == {<<RInt(0), RInt(0)>>, <<RInt(3), RInt(5)>>, <<Rat(-7, 2), RInt(96)>>,
                 <<RInt(192), RInt(256)>>, <<Rat(1, 4), Rat(385, 4)>>}

PixelCoords(limit) == {Rat(q, 4) : q \in 0..(4 * limit)}

----------------------------------------------------------------------------
(* State machine: one action per entry point, recording the call           *)

Init ==
    /\ call = "init"
    /\ args = <<>>
    /\ ret = <<>>
    /\ pc = "idle"
    /\ mem = <<>>

BoxToCenterScale ==
    /\ call = "init"
    /\ \E box \in Boxes :
        /\ call' = "_box_to_center_scale"
        /\ args' = [box |-> box]
        /\ ret' = _box_to_center_scale(box)
    /\ UNCHANGED stepvars

\* infer_frame lines 212-225 for one detected box: the sample's center and
\* scale come from _box_to_center_scale, the heatmaps from the pose network
InferFrame ==
    /\ call = "init"
    /\ \E box \in DecodeBoxes, grid \in Grids :
        LET cs == _box_to_center_scale(box)
        IN  /\ call' = "infer_frame"
            /\ args' = [box |-> box, heatmaps |-> Tensor4(<<grid>>),
                        center |-> cs.center, scale |-> cs.scale]
            /\ ret' = _decode_poses(Tensor4(<<grid>>), <<cs.center>>, <<cs.scale>>)
    /\ UNCHANGED stepvars

MaxPreds ==
    /\ call = "init"
    /\ \E heatmaps \in PredTensors :
        /\ call' = "_max_preds"
        /\ args' = [heatmaps |-> heatmaps]
        /\ ret' = _max_preds(heatmaps)
    /\ UNCHANGED stepvars

\* _decode_poses hands the coordinates of _max_preds to _refine
Refine ==
    /\ call = "_max_preds"
    /\ call' = "_refine"
    /\ args' = [coords |-> ret.preds, maxvals |-> ret.maxvals, heatmaps |-> args.heatmaps]
    /\ ret' = _refine(ret.preds, args.heatmaps)
    /\ UNCHANGED stepvars

\* one pose sample: _prepare_samples builds the crop matrix (inv=False) from
\* the box's center and scale, _transform_preds the matrix back (inv=True)
\* from the same center and scale; a point goes through the first, then the
\* second
AffineRoundTrip ==
    /\ call = "init"
    /\ \E box \in AffineBoxes, point \in AffinePoints :
        LET cs == _box_to_center_scale(box)
            trans == _get_affine_transform(cs.center, cs.scale, 0, POSE_INPUT_SIZE, FALSE)
            back == _get_affine_transform(cs.center, cs.scale, 0, POSE_INPUT_SIZE, TRUE)
            cropped == _affine_transform(point, trans)
        IN  /\ call' = "_affine_transform"
            /\ args' = [box |-> box, center |-> cs.center, scale |-> cs.scale,
                        point |-> point]
            /\ ret' = [trans |-> trans, back |-> back, cropped |-> cropped,
                       restored |-> _affine_transform(cropped, back)]
    /\ UNCHANGED stepvars

DecodePoses ==
    /\ call = "init"
    /\ \E heatmaps \in Tensors, nc \in 0..(MaxN + 1), ns \in 0..(MaxN + 1) :
        LET centers == SubSeq(CenterList, 1, nc)
            scales  == SubSeq(ScaleList, 1, ns)
        IN  /\ call' = "_decode_poses"
            /\ args' = [heatmaps |-> heatmaps, centers |-> centers, scales |-> scales]
            /\ ret' = _decode_poses(heatmaps, centers, scales)
    /\ UNCHANGED stepvars

InterpNans ==
    /\ call = "init"
    /\ \E values \in SeqsUpTo(SeriesSamples, MaxLen) :
        /\ call' = "_interp_nans"
        /\ args' = [values |-> values]
        /\ ret' = _interp_nans(values)
    /\ UNCHANGED stepvars

OneEuro ==
    /\ call = "init"
    /\ \E series \in OneEuroSeries, fps \in OneEuroFps, strength \in OneEuroStrengths :
        /\ call' = "_one_euro"
        /\ args' = [series |-> series, fps |-> fps, strength |-> strength]
        /\ ret' = _one_euro(series, fps, strength)
    /\ UNCHANGED stepvars

Savgol ==
    /\ call = "init"
    /\ \E series \in SavgolSeries \cup RestSeries, strength \in Strengths :
        /\ call' = "_savgol"
        /\ args' = [series |-> series, strength |-> strength]
        /\ ret' = _savgol(series, strength)
    /\ UNCHANGED stepvars

SmoothSequence ==
    /\ call = "init"
    /\ \E sequence \in Tracks, joint_ids \in JointLists, fps \in FpsChoices,
       mode \in Modes, strength \in SmoothStrengths :
        /\ call' = "smooth_sequence"
        /\ args' = [sequence |-> sequence, joint_ids |-> joint_ids, fps |-> fps,
                    mode |-> mode, strength |-> strength]
        /\ ret' = smooth_sequence(sequence, joint_ids, fps, mode, strength)
    /\ UNCHANGED stepvars

NormalizePoint ==
    /\ call = "init"
    /\ \E width \in 1..MaxWidth, height \in 1..MaxHeight :
        \E x \in PixelCoords(width), y \in PixelCoords(height) :
            /\ call' = "_normalize_point"
            /\ args' = [x |-> x, y |-> y, width |-> width, height |-> height]
            /\ ret' = _normalize_point(x, y, RInt(width), RInt(height))
    /\ UNCHANGED stepvars

\* /export/skeleton draws a keypoint the /process handler normalised
Denormalize ==
    /\ call = "_normalize_point"
    /\ call' = "_denormalize"
    /\ args' = [point |-> ret, width |-> args.width, height |-> args.height,
                x |-> args.x, y |-> args.y]
    /\ ret' = _denormalize(ret, RInt(args.width), RInt(args.height))
    /\ UNCHANGED stepvars

\* the caller has consumed the result; the next call starts afresh (none of
\* the functions keeps state between calls)
Return ==
    /\ call # "init"
    /\ call' = "init"
    /\ args' = <<>>
    /\ ret' = <<>>
    /\ UNCHANGED stepvars

----------------------------------------------------------------------------
(* Import of mappings.py: the module-level statements that build           *)
(* MAP_VITPOSE_WHOLEBODY_133_TO_EDITOR, one dict insertion per step        *)

InitMappings ==
    /\ call = "init"
    /\ args = <<>>
    /\ ret = <<>>
    /\ pc = "import"
    /\ mem = [MAP_VITPOSE_WHOLEBODY_133_TO_EDITOR |-> <<>>, section |-> <<>>,
              resume |-> "import", face_idx |-> 0, todo |-> <<>>]

\* MAP_VITPOSE_WHOLEBODY_133_TO_EDITOR = dict(MAP_VITPOSE_17_TO_EDITOR)
CopyBody ==
    /\ pc = "import"
    /\ pc' = "feet"
    /\ mem' = [mem EXCEPT !.MAP_VITPOSE_WHOLEBODY_133_TO_EDITOR = MAP_VITPOSE_17_TO_EDITOR]
    /\ UNCHANGED <<call, args, ret>>

\* .update({17: "leftBigToe", ...})
UpdateFeet ==
    /\ pc = "feet"
    /\ pc' = "update"
    /\ mem' = [mem EXCEPT !.section = FeetSection, !.resume = "left_hand"]
    /\ UNCHANGED <<call, args, ret>>

\* .update(_add_hand_section(23, "left"))
UpdateLeftHand ==
    /\ pc = "left_hand"
    /\ pc' = "update"
    /\ mem' = [mem EXCEPT !.section = _add_hand_section(23, "left"), !.resume = "right_hand"]
    /\ UNCHANGED <<call, args, ret>>

\* .update(_add_hand_section(44, "right"))
UpdateRightHand ==
    /\ pc = "right_hand"
    /\ pc' = "update"
    /\ mem' = [mem EXCEPT !.section = _add_hand_section(44, "right"), !.resume = "face_idx"]
    /\ UNCHANGED <<call, args, ret>>

\* dict.update stores the next item of its argument
UpdateItem ==
    /\ pc = "update"
    /\ mem.section # <<>>
    /\ mem' = [mem EXCEPT
                !.MAP_VITPOSE_WHOLEBODY_133_TO_EDITOR =
                    DictSet(@, Head(mem.section)[1], Head(mem.section)[2]),
                !.section = Tail(@)]
    /\ UNCHANGED <<pc, call, args, ret>>

\* dict.update returns
UpdateReturn ==
    /\ pc = "update"
    /\ mem.section = <<>>
    /\ pc' = mem.resume
    /\ UNCHANGED <<mem, call, args, ret>>

\* face_idx = 65, and the list the for loop walks
FaceIdx ==
    /\ pc = "face_idx"
    /\ pc' = "for"
    /\ mem' = [mem EXCEPT !.face_idx = 65, !.todo = FaceSections]
    /\ UNCHANGED <<call, args, ret>>

\* section = _add_face_section(face_idx, prefix, count); .update(section)
UpdateFaceSection ==
    /\ pc = "for"
    /\ mem.todo # <<>>
    /\ pc' = "update"
    /\ mem' = [mem EXCEPT
                !.section = _add_face_section(mem.face_idx, Head(mem.todo)[1], Head(mem.todo)[2]),
                !.resume = "face_idx += count"]
    /\ UNCHANGED <<call, args, ret>>

\* face_idx += count, and on to the next (prefix, count)
FaceIdxAdvance ==
    /\ pc = "face_idx += count"
    /\ pc' = "for"
    /\ mem' = [mem EXCEPT !.face_idx = @ + Head(mem.todo)[2], !.todo = Tail(@)]
    /\ UNCHANGED <<call, args, ret>>

\* the loop is exhausted: the module is imported
Imported ==
    /\ pc = "for"
    /\ mem.todo = <<>>
    /\ pc' = "imported"
    /\ UNCHANGED <<mem, call, args, ret>>

NextMappings ==
    \/ CopyBody
    \/ UpdateFeet
    \/ UpdateLeftHand
    \/ UpdateRightHand
    \/ UpdateItem
    \/ UpdateReturn
    \/ FaceIdx
    \/ UpdateFaceSection
    \/ FaceIdxAdvance
    \/ Imported

SpecMappings == InitMappings /\ [][NextMappings]_vars

----------------------------------------------------------------------------
(* Overlapping smooth_sequence calls.  pc[t] is where call t stands;        *)
(* mem.frame[t] holds its arguments, loop position and result, mem.data[w]  *)
(* the data array of workspace w.  smooth.py has no module-level variable.  *)

InitConcurrent ==
    /\ call = "init"
    /\ args = <<>>
    /\ ret = <<>>
    /\ pc = [t \in Calls |-> "idle"]
    /\ mem = [frame |-> [t \in Calls |-> <<>>], data |-> [t \in Calls |-> <<>>]]

\* lines 66-74: the call starts and fills its data array
SmoothEnter(t) ==
    /\ pc[t] = "idle"
    /\ \E a \in ConcurrentArgs :
        /\ pc' = [pc EXCEPT ![t] = "for"]
        /\ mem' = [mem EXCEPT
                    !.frame[t] = [args |-> a, ji |-> 1, axis |-> 1],
                    !.data[Workspace(t)] = SmoothData(a.sequence, a.joint_ids)]
    /\ UNCHANGED <<call, args, ret>>

\* lines 76-84: one (ji, axis) pass of the double loop
SmoothColumn(t) ==
    /\ pc[t] = "for"
    /\ mem.frame[t].ji <= Len(mem.frame[t].args.joint_ids)
    /\ LET fr == mem.frame[t]
           data == mem.data[Workspace(t)]
           smoothed == SmoothedColumn(data, fr.ji, fr.axis, fr.args.fps,
                                      fr.args.mode, fr.args.strength)
       IN  mem' = [mem EXCEPT
                    !.data[Workspace(t)] = StoreColumn(data, fr.ji, fr.axis, smoothed.out),
                    !.frame[t].axis = IF fr.axis = 1 THEN 2 ELSE 1,
                    !.frame[t].ji = IF fr.axis = 1 THEN fr.ji ELSE fr.ji + 1]
    /\ UNCHANGED <<pc, call, args, ret>>

\* lines 86-95: the loops are done; the output is built and returned
SmoothReturn(t) ==
    /\ pc[t] = "for"
    /\ mem.frame[t].ji > Len(mem.frame[t].args.joint_ids)
    /\ pc' = [pc EXCEPT ![t] = "returned"]
    /\ mem' = [mem EXCEPT
                !.frame[t] = [args |-> mem.frame[t].args,
                              out  |-> SmoothOut(mem.data[Workspace(t)],
                                                 mem.frame[t].args.joint_ids)]]
    /\ UNCHANGED <<call, args, ret>>

\* the caller takes the result; the call's frame is gone
SmoothForget(t) ==
    /\ pc[t] = "returned"
    /\ pc' = [pc EXCEPT ![t] = "idle"]
    /\ mem' = [mem EXCEPT !.frame[t] = <<>>]
    /\ UNCHANGED <<call, args, ret>>

NextConcurrent ==
    \/ \E t \in Calls : SmoothEnter(t)
    \/ \E t \in Calls : SmoothColumn(t)
    \/ \E t \in Calls : SmoothReturn(t)
    \/ \E t \in Calls : SmoothForget(t)

SpecConcurrent == InitConcurrent /\ [][NextConcurrent]_vars

----------------------------------------------------------------------------
(* The /process handler from the decoded frames on.  mem.k2d_frames is     *)
(* the list being built, mem.inferred the infer_frame results so far and   *)
(* mem.smooth_calls the calls made to smooth_sequence (arguments and       *)
(* result).  The 3-D lifting block reads k2d_frames and leaves it alone.   *)

\* read_video_frames returned total_frames >= 1 frames
InitProcess ==
    /\ call = "init"
    /\ args = <<>>
    /\ ret = <<>>
    /\ pc = "for frames"
    /\ \E opts \in ProcessOptions, total_frames \in 1..MaxFrames :
        mem = [opts |-> opts, total_frames |-> total_frames, inferred |-> <<>>,
               k2d_frames |-> <<>>, smooth_calls |-> <<>>]

\* lines 157-173: one pass of the frame loop
InferAndNormalize ==
    /\ pc = "for frames"
    /\ Len(mem.k2d_frames) < mem.total_frames
    /\ \E persons \in InferResults :
        mem' = [mem EXCEPT
                 !.inferred = Append(@, persons),
                 !.k2d_frames = Append(@,
                    [frame |-> Len(mem.k2d_frames),
                     persons |-> PersonDicts(persons, ProcessMap, mem.opts.personMode,
                                             ProcessSize, ProcessSize)])]
    /\ UNCHANGED <<pc, call, args, ret>>

\* the frame loop is exhausted
FramesDone ==
    /\ pc = "for frames"
    /\ Len(mem.k2d_frames) = mem.total_frames
    /\ pc' = "smoothing"
    /\ UNCHANGED <<mem, call, args, ret>>

\* lines 205-216: the guard holds; smooth_sequence is called on the track
SmoothFirstPerson ==
    /\ pc = "smoothing"
    /\ SmoothingGuard(mem.k2d_frames)
    /\ LET joint_ids == FirstPersonJoints(mem.k2d_frames, ProcessMap)
           sequence == FirstPersonSequence(mem.k2d_frames, joint_ids)
           smoothed == smooth_sequence(sequence, joint_ids, mem.opts.fps,
                                       mem.opts.smooth.type, mem.opts.smooth.strength)
       IN  mem' = [mem EXCEPT !.smooth_calls =
                     Append(@, [sequence |-> sequence, joint_ids |-> joint_ids,
                                done |-> Len(mem.k2d_frames), smoothed |-> smoothed.out])]
    /\ pc' = "write back"
    /\ UNCHANGED <<call, args, ret>>

\* line 205: the guard fails; the block is skipped
SkipSmoothing ==
    /\ pc = "smoothing"
    /\ ~SmoothingGuard(mem.k2d_frames)
    /\ pc' = "respond"
    /\ UNCHANGED <<mem, call, args, ret>>

\* lines 217-222
WriteBack ==
    /\ pc = "write back"
    /\ LET made == mem.smooth_calls[Len(mem.smooth_calls)]
       IN  mem' = [mem EXCEPT !.k2d_frames =
                     WriteBackSmoothed(@, made.joint_ids, made.smoothed)]
    /\ pc' = "respond"
    /\ UNCHANGED <<call, args, ret>>

\* line 258: the result goes out
Respond ==
    /\ pc = "respond"
    /\ pc' = "responded"
    /\ UNCHANGED <<mem, call, args, ret>>

NextProcess ==
    \/ InferAndNormalize
    \/ FramesDone
    \/ SmoothFirstPerson
    \/ SkipSmoothing
    \/ WriteBack
    \/ Respond

SpecProcess == InitProcess /\ [][NextProcess]_vars

----------------------------------------------------------------------------
(* decoder.py: read_video_frames, the subsampling loop.  Frame rates are   *)
(* whole frames per second, 0 standing for a rate that is not given;       *)
(* step and next_capture are in millionths of a frame so that the 1e-6     *)
(* tolerance of the comparison is one unit.  mem.source is the number of   *)
(* frames cap.read() delivers, mem.frames the source indices of the        *)
(* frames appended so far.                                                 *)

Micro == 1000000

\* the 1e-6 of line 56
CaptureEpsilon == 1

MaxSource == 6

\* what CAP_PROP_FPS reports
SourceRates == {0, 24, 30, 60}

\* target_fps; 0 is None
TargetRates == {0, 10, 12, 15, 24, 30}

\* lines 37-39: src_fps, with the fallback for a rate the file lacks
SourceFps(reported, target_fps) ==
    IF reported <= 0 THEN (IF target_fps # 0 THEN target_fps ELSE 24) ELSE reported

\* lines 45-46
DecodeFps(target_fps, src_fps) ==
    LET fps == IF target_fps # 0 THEN target_fps ELSE src_fps
    IN  IF fps > 0 THEN fps ELSE src_fps

\* line 47: step = max(1.0, src_fps / fps) if fps else 1.0
CaptureStep(src_fps, fps) ==
    IF fps # 0
    THEN (LET q == RoundDiv(src_fps * Micro, fps) IN IF q > Micro THEN q ELSE Micro)
    ELSE Micro

\* line 56: idx + 1 >= next_capture - 1e-6
CaptureDue(idx, next_capture) ==
    (idx + 1) * Micro >= next_capture - CaptureEpsilon

\* lines 33-51: the capture is open on a stream of mem.source frames
InitDecoder ==
    /\ call = "init"
    /\ args = <<>>
    /\ ret = <<>>
    /\ pc = "while"
    /\ \E reported \in SourceRates, target_fps \in TargetRates, source \in 0..MaxSource :
        LET src_fps == SourceFps(reported, target_fps)
            fps == DecodeFps(target_fps, src_fps)
        IN  mem = [src_fps |-> src_fps, target_fps |-> target_fps, fps |-> fps,
                   step |-> CaptureStep(src_fps, fps), source |-> source,
                   frames |-> <<>>, next_capture |-> 0, idx |-> 0]

\* lines 53-62: a frame is read and appended
DecodeKeep ==
    /\ pc = "while"
    /\ mem.idx < mem.source
    /\ CaptureDue(mem.idx, mem.next_capture)
    /\ mem' = [mem EXCEPT !.frames = Append(@, mem.idx),
                          !.next_capture = @ + mem.step,
                          !.idx = @ + 1]
    /\ UNCHANGED <<pc, call, args, ret>>

\* lines 53-56, 62: a frame is read and dropped
DecodeSkip ==
    /\ pc = "while"
    /\ mem.idx < mem.source
    /\ ~CaptureDue(mem.idx, mem.next_capture)
    /\ mem' = [mem EXCEPT !.idx = @ + 1]
    /\ UNCHANGED <<pc, call, args, ret>>

\* lines 54-55, 68-81: the stream ends and the frames are returned
DecodeReturn ==
    /\ pc = "while"
    /\ mem.idx = mem.source
    /\ mem.frames # <<>>
    /\ pc' = "returned"
    /\ UNCHANGED <<mem, call, args, ret>>

\* lines 54-55, 65-66: the stream ends with nothing decoded
DecodeRaise ==
    /\ pc = "while"
    /\ mem.idx = mem.source
    /\ mem.frames = <<>>
    /\ pc' = "VideoDecodeError"
    /\ UNCHANGED <<mem, call, args, ret>>

NextDecoder ==
    \/ DecodeKeep
    \/ DecodeSkip
    \/ DecodeReturn
    \/ DecodeRaise

SpecDecoder == InitDecoder /\ [][NextDecoder]_vars

----------------------------------------------------------------------------
(* Specifications of the call-recording actions                            *)

\* the geometry transform and the heatmap decoder
NextGeometry ==
    \/ BoxToCenterScale
    \/ InferFrame
    \/ AffineRoundTrip
    \/ MaxPreds
    \/ Refine
    \/ DecodePoses
    \/ Return

SpecGeometry == Init /\ [][NextGeometry]_vars

\* the temporal smoother
NextSmooth ==
    \/ InterpNans
    \/ OneEuro
    \/ Savgol
    \/ SmoothSequence
    \/ Return

SpecSmooth == Init /\ [][NextSmooth]_vars

\* the coordinate normaliser
NextUnits ==
    \/ NormalizePoint
    \/ Denormalize
    \/ Return

SpecUnits == Init /\ [][NextUnits]_vars

----------------------------------------------------------------------------
(* Claims                                                                  *)

\* C1: smooth_sequence called with a mode that is neither "oneEuro" nor
\* "savgol" fails with an error and returns no smoothed track.
C1_UnsupportedModeFailsFast ==
    (call = "smooth_sequence" /\ args.mode \notin {"oneEuro", "savgol"})
        => ret.raised # "none"

Malformed(heatmaps, centers, scales) ==
    \/ Len(heatmaps.shape) # 4
    \/ Len(centers) # heatmaps.shape[1]
    \/ Len(scales) # heatmaps.shape[1]

\* C2: the heatmap decode rejects with an error every call whose heatmaps are
\* not 4-dimensional or whose centers / scales lists have a length different
\* from the batch size N; extra entries are never silently ignored.
C2_MalformedDecodeRejected ==
    (call = "_decode_poses" /\ Malformed(args.heatmaps, args.centers, args.scales))
        => ret.raised # "none"

IsScenarioCall ==
    /\ call = "smooth_sequence"
    /\ args.sequence = ScenarioTrack
    /\ args.joint_ids = <<"nose">>
    /\ args.mode = "oneEuro"
    /\ args.strength = 900
    /\ args.fps = 30 * Scale
    /\ ret.raised = "none"

\* max minus min of the x output of the "nose" joint over all output frames
PeakToPeak(out) ==
    LET xs == {out[fi]["nose"][1] : fi \in 1..Len(out)}
        hi == CHOOSE a \in xs : \A b \in xs : b <= a
        lo == CHOOSE a \in xs : \A b \in xs : a <= b
    IN  hi - lo

\* C3 (as stated): the 10-frame 0/1 oscillation smoothed with oneEuro,
\* strength 0.9, fps 30 has an output peak-to-peak amplitude below 0.3.
C3_ScenarioAmplitudeBelow03 ==
    IsScenarioCall => PeakToPeak(ret.out) * 10 < 3 * Scale

\* C3 (amended): in that scenario every joint is kept in all 10 output frames
\* and the output peak-to-peak amplitude lies between 0.7 and 0.8 (the
\* filter starts at out[0] = 0 and its speed-adaptive cutoff lets the
\* oscillation through).
C3_ScenarioAmplitude ==
    IsScenarioCall =>
        /\ Len(ret.out) = 10
        /\ ret.out[1]["nose"][1] = 0
        /\ 7 * Scale < PeakToPeak(ret.out) * 10
        /\ PeakToPeak(ret.out) * 10 < 8 * Scale

C3_Witness == IsScenarioCall /\ PeakToPeak(ret.out) > 0

IsSavgol5 == call = "_savgol" /\ Len(args.series) = 5 /\ args.strength \in 0..Scale

\* C4 (as stated): for a 5-sample series and every strength in [0,1] the
\* window chosen by _savgol is odd, at least 3 and strictly less than 5.
C4_Window5StrictlyBelow5 ==
    IsSavgol5 => (ret.window % 2 = 1 /\ ret.window >= 3 /\ ret.window < 5)

\* C4 (amended): for a 5-sample series and every strength in [0,1] the window
\* chosen by _savgol is odd, at least 3 and at most 5 (it is 5 from strength
\* 1/18 on), and the filter accepts it.
C4_Window5AtMost5 ==
    IsSavgol5 => (ret.window % 2 = 1 /\ ret.window >= 3 /\ ret.window <= 5
                    /\ ret.raised = "none")

C4_Witness == IsSavgol5 /\ ret.window = 5 /\ args.strength = Scale

\* joint jid has a finite x or y sample in some frame of the track
HasFiniteSample(sequence, jid) ==
    \E fi \in 1..Len(sequence) :
        /\ jid \in DOMAIN sequence[fi]
        /\ (IsFinite(sequence[fi][jid][1]) \/ IsFinite(sequence[fi][jid][2]))

\* C5: a joint id is omitted from the output frames of smooth_sequence exactly
\* when no frame of the input track holds a finite x/y sample for it; a joint
\* with at least one finite sample appears in every output frame.
C5_OmittedIffNeverSeen ==
    (call = "smooth_sequence" /\ ret.raised = "none") =>
        \A ji \in 1..Len(args.joint_ids), fi \in 1..Len(ret.out) :
            (args.joint_ids[ji] \in DOMAIN ret.out[fi])
                <=> HasFiniteSample(args.sequence, args.joint_ids[ji])

IsDegenerateDecode ==
    /\ call = "infer_frame"
    /\ args.box[3] = RInt(0)
    /\ args.box[4] = RInt(0)

\* C6 (as stated): for a degenerate box (w = 0, h = 0) the full decode with
\* the sentinel center / scale yields the coordinate (0, 0) for every joint.
C6_DegenerateDecodeIsZero ==
    IsDegenerateDecode =>
        /\ ret.raised = "none"
        /\ \A j \in DOMAIN ret.coords[1] : ret.coords[1][j] = <<RInt(0), RInt(0)>>

\* C6 (amended): for a degenerate box the decode uses the sentinel, does not
\* raise, and maps the network-input coordinate (u, v) of every joint to the
\* finite image coordinate ((u - 96) * 200/192, (v - 128) * 200/192): an
\* undetected joint (u = v = 0) lands at (-100, -400/3), not at (0, 0).
C6_DegenerateDecodeFinite ==
    IsDegenerateDecode =>
        /\ args.center = Sentinel.center
        /\ args.scale = Sentinel.scale
        /\ ret.raised = "none"
        /\ \A j \in DOMAIN ret.coords[1] :
            LET u == ret.input[1][j][1]
                v == ret.input[1][j][2]
            IN  /\ ret.coords[1][j][1] =
                     RMul(RSub(u, Rat(POSE_INPUT_W, 2)), Rat(PIXEL_STD, POSE_INPUT_W))
                /\ ret.coords[1][j][2] =
                     RMul(RSub(v, Rat(POSE_INPUT_H, 2)), Rat(PIXEL_STD, POSE_INPUT_W))
                /\ (ret.conf[1][j] <= 0 =>
                        ret.coords[1][j] = <<RInt(-100), Rat(-400, 3)>>)

C6_Witness ==
    /\ IsDegenerateDecode
    /\ args.box[1] = RInt(5)
    /\ ret.raised = "none"
    /\ ret.conf[1][1] = Scale
    /\ ret.coords[1][1] # <<RInt(0), RInt(0)>>

IsBoxCall == call = "_box_to_center_scale"

BelowEps(box) == RLt(box[3], BoxEps) \/ RLt(box[4], BoxEps)

\* C7: _box_to_center_scale returns the sentinel center (0, 0) and scale
\* (1, 1) for every box whose width or height is below the epsilon 1e-6
\* (zero and negative included), whatever x and y.
C7_DegenerateBoxSentinel ==
    (IsBoxCall /\ BelowEps(args.box)) =>
        ret = [center |-> <<RInt(0), RInt(0)>>, scale |-> <<RInt(1), RInt(1)>>]

C7_Witness ==
    /\ IsBoxCall
    /\ args.box[1] = RInt(10)
    /\ args.box[3] = RInt(30)
    /\ args.box[4] = Rat(1, 2000000)
    /\ ret.scale = <<RInt(1), RInt(1)>>

GapBetween(values, a, i, b) ==
    /\ a < i /\ i < b
    /\ IsFinite(values[a]) /\ IsFinite(values[b])
    /\ \A t \in (a + 1)..(b - 1) : ~IsFinite(values[t])

\* C8: _interp_nans replaces every non-finite sample between its nearest
\* finite neighbours a < i < b by v[a] + (v[b] - v[a]) * (i - a) / (b - a)
\* (to the nearest unit), returns finite samples unchanged, turns a series
\* without finite sample into zeros, and maps [1, NaN, NaN, 4] to [1, 2, 3, 4].
C8_GapFill ==
    call = "_interp_nans" =>
        LET values == args.values
            n == Len(values)
        IN  /\ Len(ret) = n
            /\ \A i \in 1..n : IsFinite(values[i]) => ret[i] = values[i]
            /\ (\A i \in 1..n : ~IsFinite(values[i])) => \A i \in 1..n : ret[i] = Fin(0)
            /\ \A a \in 1..n, i \in 1..n, b \in 1..n :
                GapBetween(values, a, i, b) =>
                    /\ IsFinite(ret[i])
                    /\ 2 * Abs((ret[i].v - values[a].v) * (b - a)
                               - (values[b].v - values[a].v) * (i - a)) <= b - a
            /\ (values = <<Fin(Scale), NaN, NaN, Fin(4 * Scale)>>
                    => ret = <<Fin(Scale), Fin(2 * Scale), Fin(3 * Scale), Fin(4 * Scale)>>)

C8_Witness ==
    /\ call = "_interp_nans"
    /\ args.values = <<Fin(Scale), NaN, NaN, Fin(4 * Scale)>>
    /\ ret[2] = Fin(2 * Scale)

\* C9 (as stated): for every box with w and h at or above the epsilon the
\* returned scale has aspect ratio scale.x / scale.y = 192 / 256.
C9_AspectRatioAlways ==
    (IsBoxCall /\ ~BelowEps(args.box)) =>
        RDiv(ret.scale[1], ret.scale[2]) = Rat(POSE_INPUT_W, POSE_INPUT_H)

\* the box width after widening to the target aspect ratio
AdjustedWidth(box) == RMax(box[3], RMul(Rat(POSE_INPUT_W, POSE_INPUT_H), box[4]))

\* C9 (amended): for every box with w and h at or above the epsilon whose
\* aspect-adjusted width is at least 0.2 px (so that the 1e-3 floor raises
\* neither scale component) the returned scale has aspect ratio 192 / 256.
C9_AspectRatioAboveFloor ==
    (IsBoxCall /\ ~BelowEps(args.box) /\ ~RLt(AdjustedWidth(args.box), Rat(1, 5))) =>
        RDiv(ret.scale[1], ret.scale[2]) = Rat(POSE_INPUT_W, POSE_INPUT_H)

C9_Witness ==
    /\ IsBoxCall
    /\ args.box[3] = RInt(30)
    /\ args.box[4] = RInt(64)
    /\ ret.scale = <<Rat(3, 10), Rat(2, 5)>>

\* C10 (as stated): normalising a pixel (x, y) of [0, width] x [0, height]
\* and denormalising the result returns (x, y).
C10_RoundTripExact ==
    call = "_denormalize" => (RInt(ret[1]) = args.x /\ RInt(ret[2]) = args.y)

\* |a - b| <= 1/2
WithinHalf(a, b) ==
    ~RLt(Rat(1, 2), RSub(a, b)) /\ ~RLt(Rat(1, 2), RSub(b, a))

\* C10 (amended): normalising a pixel (x, y) of [0, width] x [0, height] and
\* denormalising the result returns (x, y) rounded to the nearest integer
\* pixel: within 0.5 of (x, y), and (x, y) itself when x and y are integers.
C10_RoundTripToNearestPixel ==
    call = "_denormalize" =>
        /\ WithinHalf(RInt(ret[1]), args.x)
        /\ WithinHalf(RInt(ret[2]), args.y)
        /\ (args.x[2] = 1 => ret[1] = args.x[1])
        /\ (args.y[2] = 1 => ret[2] = args.y[1])

C10_Witness ==
    /\ call = "_denormalize"
    /\ args.x = Rat(5, 4)
    /\ args.y = RInt(2)
    /\ ret = <<1, 2>>

\* the 2x2 linear part of an affine matrix has a non-zero determinant
Invertible(mat) ==
    RSub(RMul(mat[1][1], mat[2][2]), RMul(mat[1][2], mat[2][1]))[1] # 0

\* C11: for every center and scale _box_to_center_scale returns, rotation 0
\* and the pose input size, a point sent through the matrix of
\* _get_affine_transform(inv=False) and then through the matrix of
\* _get_affine_transform(inv=True) comes back to itself, and both matrices
\* are invertible (the three reference points are not collinear).
C11_AffineRoundTrip ==
    call = "_affine_transform" =>
        /\ ret.restored = args.point
        /\ Invertible(ret.trans)
        /\ Invertible(ret.back)

\* a point off the origin went through the crop of a box whose scale sits on
\* the 1e-3 floor, moved, and came back
C11_Witness ==
    /\ call = "_affine_transform"
    /\ args.scale = <<RMul(ScaleFloor, SCALE_FACTOR), RMul(ScaleFloor, SCALE_FACTOR)>>
    /\ args.point = <<RInt(3), RInt(5)>>
    /\ ret.cropped # args.point
    /\ ret.restored = args.point

\* the heatmap of sample 0, joint 0 is 1.0 at (x, y) and 0.0 elsewhere
IsSinglePixel(heatmaps, x, y) ==
    \A yy \in 1..heatmaps.shape[3], xx \in 1..heatmaps.shape[4] :
        heatmaps.data[1][1][yy][xx] = IF xx - 1 = x /\ yy - 1 = y THEN Scale ELSE 0

\* C12: for a heatmap of any size with one pixel (x, y) at 1.0 and all others
\* at 0.0, _max_preds returns exactly (x, y) as the coordinate and 1.0 as the
\* confidence, for every pixel position including the borders.
C12_SinglePixelArgmax ==
    call = "_max_preds" =>
        \A x \in 0..(args.heatmaps.shape[4] - 1), y \in 0..(args.heatmaps.shape[3] - 1) :
            IsSinglePixel(args.heatmaps, x, y) =>
                /\ ret.preds[1][1] = <<RInt(x), RInt(y)>>
                /\ ret.maxvals[1][1] = Scale

\* the lit pixel is the bottom-right corner of a full-size heatmap
C12_Witness ==
    /\ call = "_max_preds"
    /\ args.heatmaps.shape = <<1, 1, GridH, GridW>>
    /\ IsSinglePixel(args.heatmaps, GridW - 1, GridH - 1)
    /\ ret.preds[1][1] = <<RInt(GridW - 1), RInt(GridH - 1)>>

\* the editor joint ids of one hand
HandNames(side) ==
    {side \o "Palm"}
    \cup {side \o Fingers[f] \o ToString(seg) : f \in 1..Len(Fingers), seg \in 1..4}

FaceNames ==
    UNION {{FaceSections[q][1] \o ToString(i) : i \in 0..(FaceSections[q][2] - 1)} :
            q \in 1..Len(FaceSections)}

\* C13: once mappings.py is imported, MAP_VITPOSE_WHOLEBODY_133_TO_EDITOR
\* has exactly 133 entries with key set exactly 0..132: the body joints at
\* 0..16, the feet at 17..22, the left hand at 23..43, the right hand at
\* 44..64 and the face at 65..132, every index holding a joint id of its own
\* section.
C13_WholeBodyMapComplete ==
    pc = "imported" =>
        LET map == mem.MAP_VITPOSE_WHOLEBODY_133_TO_EDITOR
        IN  /\ DOMAIN map = 0..132
            /\ Cardinality(DOMAIN map) = 133
            /\ \A key \in 0..16 : map[key] = MAP_VITPOSE_17_TO_EDITOR[key]
            /\ \A key \in 17..22 : map[key] \in {FeetSection[q][2] : q \in 1..Len(FeetSection)}
            /\ \A key \in 23..43 : map[key] \in HandNames("left")
            /\ \A key \in 44..64 : map[key] \in HandNames("right")
            /\ \A key \in 65..132 : map[key] \in FaceNames

\* the import has finished and the last face landmark sits at index 132
C13_Witness ==
    /\ pc = "imported"
    /\ mem.face_idx = 133
    /\ mem.MAP_VITPOSE_WHOLEBODY_133_TO_EDITOR[132] = "innerLip7"
    /\ mem.MAP_VITPOSE_WHOLEBODY_133_TO_EDITOR[43] = "leftPinky4"

\* Len(q)^2 times the variance of the samples of q
VarianceTimesN2(q) ==
    LET total   == SumRange(LAMBDA i : q[i], 1, Len(q))
        squares == SumRange(LAMBDA i : q[i] * q[i], 1, Len(q))
    IN  Len(q) * squares - total * total

\* the series alternates between two levels around a constant
IsOscillation(series) ==
    /\ Len(series) >= 4
    /\ series[1] # series[2]
    /\ \A i \in 3..Len(series) : series[i] = series[i - 2]

\* every weaker strength leaves the output with a strictly larger variance
VarianceBelowWeaker ==
    \A weaker \in {w \in OneEuroStrengths : w < args.strength} :
        VarianceTimesN2(ret.out)
            < VarianceTimesN2(_one_euro(args.series, args.fps, weaker).out)

\* the frame rates at which variances are compared (at 1e-3 fps the outputs
\* differ by less than a unit)
VideoFps == {24 * Scale, 30 * Scale}

C15_SavgolWindow ==
    call = "_savgol" =>
        IF Len(args.series) >= 3
        THEN /\ ret.window % 2 = 1
             /\ 3 <= ret.window
             /\ ret.window <= 21
             /\ ret.window <= Len(args.series)
             /\ ret.raised = "none"
        ELSE /\ ret.window = 0
             /\ ret.raised = "none"
             /\ ret.out = args.series

\* the widest window: strength 1 on a series longer than 21 samples
C15_Witness ==
    /\ call = "_savgol"
    /\ Len(args.series) > 21
    /\ args.strength = Scale
    /\ ret.window = 21
    /\ ret.raised = "none"

\* the number of leading samples on which two series agree
CommonPrefix(a, b) ==
    LET upto == IF Len(a) < Len(b) THEN Len(a) ELSE Len(b)
    IN  CHOOSE i \in 0..upto :
            /\ \A j \in 1..i : a[j] = b[j]
            /\ (i < upto => a[i + 1] # b[i + 1])

\* C16: _one_euro is causal: two series that agree on their first i+1
\* samples give, at the same fps and strength, identical outputs at indices
\* 0..i, whatever they hold afterwards.
C16_OneEuroCausal ==
    (call = "_one_euro" /\ ret.raised = "none") =>
        \A other \in OneEuroSeries :
            LET i == CommonPrefix(args.series, other)
            IN  i >= 1 =>
                    SubSeq(ret.out, 1, i)
                        = SubSeq(_one_euro(other, args.fps, args.strength).out, 1, i)

\* a filtered series that shares its first two samples with a series that
\* continues differently, and whose output moved after the first sample
C16_Witness ==
    /\ call = "_one_euro"
    /\ args.series = <<0, Scale, 0, Scale>>
    /\ CommonPrefix(args.series, <<0, Scale, Scale>>) = 2
    /\ ret.raised = "none"
    /\ ret.out[2] # ret.out[1]
    /\ SubSeq(ret.out, 1, 2)
        = SubSeq(_one_euro(<<0, Scale, Scale>>, args.fps, args.strength).out, 1, 2)
    /\ ret.out[3] # _one_euro(<<0, Scale, Scale>>, args.fps, args.strength).out[3]

\* C17: smooth_sequence never smooths or interpolates the confidence: for
\* every joint and frame present in its output, the output confidence is the
\* input confidence of that joint at that frame when it is finite, and 0.0
\* when the joint is missing from the input frame or its confidence is not
\* finite, in both modes and for every strength and fps.
C17_ConfidencePassThrough ==
    (call = "smooth_sequence" /\ ret.raised = "none") =>
        \A fi \in 1..Len(ret.out) : \A jid \in DOMAIN ret.out[fi] :
            ret.out[fi][jid][3] =
                IF jid \in DOMAIN args.sequence[fi] /\ IsFinite(args.sequence[fi][jid][3])
                THEN args.sequence[fi][jid][3].v
                ELSE 0

\* a savgol-smoothed track whose output holds the nose with confidence 0 in a
\* frame where the input lacks it, and with the input's 0.9 in another frame
C17_Witness ==
    /\ call = "smooth_sequence"
    /\ args.mode = "savgol"
    /\ args.strength = 900
    /\ ret.raised = "none"
    /\ \E fi \in 1..Len(ret.out) :
        /\ "nose" \in DOMAIN ret.out[fi]
        /\ "nose" \notin DOMAIN args.sequence[fi]
        /\ ret.out[fi]["nose"][3] = 0
    /\ \E fi \in 1..Len(ret.out) :
        /\ "nose" \in DOMAIN ret.out[fi]
        /\ ret.out[fi]["nose"][3] = 900

\* the integer pixel _refine reads off the coordinate of sample 0, joint 0
RefinePixel == <<RTrunc(args.coords[1][1][1]), RTrunc(args.coords[1][1][2])>>

\* that pixel lies strictly inside the one-pixel border: 1 < px < W - 1 and
\* 1 < py < H - 1
IsInterior ==
    /\ 1 < RefinePixel[1]
    /\ RefinePixel[1] < args.heatmaps.shape[4] - 1
    /\ 1 < RefinePixel[2]
    /\ RefinePixel[2] < args.heatmaps.shape[3] - 1

\* heatmaps[0, 0, y, x]
HeatAt(x, y) == args.heatmaps.data[1][1][y + 1][x + 1]

\* C18: _refine moves a joint's coordinate exactly when its integer argmax
\* satisfies 1 < px < W-1 and 1 < py < H-1: x then moves by
\* 0.25*sign(H[py,px+1] - H[py,px-1]) and y by
\* 0.25*sign(H[py+1,px] - H[py-1,px]) (not at all on an axis whose difference
\* is 0); every other joint, those on the border included, is unchanged.
C18_RefineInteriorOnly ==
    call = "_refine" =>
        LET px == RefinePixel[1]
            py == RefinePixel[2]
        IN  /\ IsInterior =>
                ret[1][1] = <<RAdd(args.coords[1][1][1],
                                   Rat(Sign(HeatAt(px + 1, py) - HeatAt(px - 1, py)), 4)),
                              RAdd(args.coords[1][1][2],
                                   Rat(Sign(HeatAt(px, py + 1) - HeatAt(px, py - 1)), 4))>>
            /\ ~IsInterior => ret[1][1] = args.coords[1][1]
            /\ ret[1][1] # args.coords[1][1] => IsInterior

\* an interior maximum with a higher right than left neighbour and equal
\* neighbours above and below: x moved by +0.25, y stayed
C18_Witness ==
    /\ call = "_refine"
    /\ IsInterior
    /\ HeatAt(RefinePixel[1] + 1, RefinePixel[2]) > HeatAt(RefinePixel[1] - 1, RefinePixel[2])
    /\ ret[1][1] = <<RAdd(args.coords[1][1][1], Rat(1, 4)), args.coords[1][1][2]>>

\* the maximum of the heatmap of sample 0, joint 0
HeatMax(heatmaps) ==
    SeqMax(Reshape(heatmaps.data[1][1], heatmaps.shape[3], heatmaps.shape[4]))

Origin == <<RInt(0), RInt(0)>>

\* C19: for a joint whose heatmap maximum is <= 0, the coordinate from
\* _max_preds is (0, 0) whatever the argmax, _refine leaves it at (0, 0), and
\* the confidence reported by _decode_poses is still the raw maximum.
C19_NonPositiveMaximum ==
    /\ (call = "_max_preds" /\ HeatMax(args.heatmaps) <= 0) =>
            /\ ret.preds[1][1] = Origin
            /\ ret.maxvals[1][1] = HeatMax(args.heatmaps)
    /\ (call = "_refine" /\ HeatMax(args.heatmaps) <= 0) => ret[1][1] = Origin
    /\ (call = "infer_frame" /\ HeatMax(args.heatmaps) <= 0) =>
            /\ ret.raised = "none"
            /\ ret.input[1][1] = Origin
            /\ ret.conf[1][1] = HeatMax(args.heatmaps)

\* a decode of an all-negative heatmap whose maximum -0.1 is not at pixel
\* (0, 0)
C19_Witness ==
    /\ call = "infer_frame"
    /\ HeatMax(args.heatmaps) = -(Scale \div 10)
    /\ args.heatmaps.data[1][1][1][1] = -Scale
    /\ ret.input[1][1] = Origin
    /\ ret.conf[1][1] = -(Scale \div 10)

\* C20: smooth_sequence carries no state between or across calls: in any
\* sequence or interleaving of calls on independent tracks, the result of a
\* call is the result of smooth_sequence run alone on that call's arguments,
\* and two calls with equal arguments return equal outputs, whatever calls
\* ran before or meanwhile.
C20_CallsAreIndependent ==
    /\ \A t \in Calls :
            pc[t] = "returned" =>
                LET a == mem.frame[t].args
                IN  mem.frame[t].out
                        = smooth_sequence(a.sequence, a.joint_ids, a.fps, a.mode, a.strength).out
    /\ \A t \in Calls, u \in Calls :
            (pc[t] = "returned" /\ pc[u] = "returned"
                /\ mem.frame[t].args = mem.frame[u].args) =>
                    mem.frame[t].out = mem.frame[u].out

\* call 1 has returned a smoothed track while call 2, on another track in the
\* other mode, is between its x and its y pass
C20_Witness ==
    /\ pc[1] = "returned"
    /\ pc[2] = "for"
    /\ mem.frame[2].axis = 2
    /\ mem.frame[1].args.sequence # mem.frame[2].args.sequence
    /\ mem.frame[1].args.mode # mem.frame[2].args.mode
    /\ "nose" \in DOMAIN mem.frame[1].args.sequence[2]
    /\ mem.frame[1].out[2]["nose"][1] # mem.frame[1].args.sequence[2]["nose"][1].v

\* the frames in which infer_frame found somebody
DetectedFrames == {fi \in 1..Len(mem.inferred) : Len(mem.inferred[fi]) > 0}

\* the first person infer_frame returned for frame fi, as a keypoint entry
RawFirstPerson(fi) ==
    PersonEntry(mem.inferred[fi][1], ProcessMap, ProcessSize, ProcessSize)

\* C21: in the /process handler, for every request whose frames include at
\* least one frame with a detected person, smooth_sequence is invoked
\* exactly once, over the full first-person track and only after every
\* frame has been normalised, and the smoothed x and y are written back to
\* every frame with a detected first person, whichever frames (the first
\* included) lack a detection.
C21_SmoothedOncePerTrack ==
    /\ \A q \in 1..Len(mem.smooth_calls) : mem.smooth_calls[q].done = mem.total_frames
    /\ (pc = "responded" /\ DetectedFrames # {}) =>
            /\ Len(mem.smooth_calls) = 1
            /\ Len(mem.smooth_calls[1].sequence) = mem.total_frames
            /\ \A fi \in DetectedFrames : \A jid \in DOMAIN RawFirstPerson(fi) :
                    /\ mem.smooth_calls[1].sequence[fi][jid]
                            = <<Fin(RawFirstPerson(fi)[jid].x), Fin(RawFirstPerson(fi)[jid].y),
                                Fin(RawFirstPerson(fi)[jid].c)>>
                    /\ mem.k2d_frames[fi].persons[1][jid].x
                            = mem.smooth_calls[1].smoothed[fi][jid][1]
                    /\ mem.k2d_frames[fi].persons[1][jid].y
                            = mem.smooth_calls[1].smoothed[fi][jid][2]

\* the least and the greatest of the first i samples of a series
PrefixMin(series, i) ==
    CHOOSE m \in {series[j] : j \in 1..i} : \A j \in 1..i : m <= series[j]

PrefixMax(series, i) ==
    CHOOSE m \in {series[j] : j \in 1..i} : \A j \in 1..i : series[j] <= m

\* C22: the one-euro filter never overshoots: for every finite series, fps
\* and strength, out[0] equals series[0] and every out[i] lies between the
\* minimum and the maximum of series[0..i].
C22_OneEuroNoOvershoot ==
    (call = "_one_euro" /\ ret.raised = "none") =>
        /\ Len(ret.out) = Len(args.series)
        /\ ret.out[1] = args.series[1]
        /\ \A i \in 1..Len(ret.out) :
                /\ PrefixMin(args.series, i) <= ret.out[i]
                /\ ret.out[i] <= PrefixMax(args.series, i)

\* a filtered step from 0 to 1 whose second output lies strictly between the
\* two levels
C22_Witness ==
    /\ call = "_one_euro"
    /\ ret.raised = "none"
    /\ Len(args.series) >= 2
    /\ args.series[1] = 0
    /\ args.series[2] = Scale
    /\ 0 < ret.out[2]
    /\ ret.out[2] < Scale

\* C23: for a sequence of any length (zero frames and one frame included),
\* a non-empty joint_ids list and either mode, smooth_sequence returns
\* without raising a list with exactly one output frame per input frame
\* whose keys are a subset of joint_ids.
C23_SmoothSequenceTotal ==
    (/\ call = "smooth_sequence"
     /\ args.mode \in {"oneEuro", "savgol"}
     /\ Len(args.joint_ids) > 0) =>
        /\ ret.raised = "none"
        /\ Len(ret.out) = Len(args.sequence)
        /\ \A fi \in 1..Len(ret.out) :
                DOMAIN ret.out[fi] \subseteq {args.joint_ids[q] : q \in 1..Len(args.joint_ids)}

\* C24: when the source fps is an integer multiple s >= 1 of the target
\* fps, read_video_frames keeps frame 0, any two consecutive kept source
\* indices differ by exactly s, and a source of N frames yields ceil(N/s)
\* decoded frames.
C24_EvenSubsampling ==
    (/\ pc = "returned"
     /\ mem.target_fps # 0
     /\ mem.src_fps % mem.target_fps = 0) =>
        LET s == mem.src_fps \div mem.target_fps
            kept == mem.frames
        IN  /\ kept[1] = 0
            /\ \A i \in 1..(Len(kept) - 1) : kept[i + 1] - kept[i] = s
            /\ Len(kept) = (mem.source + s - 1) \div s

====
